---- MODULE Spec2Model ----
(***************************************************************************)
(* Model of the remote-host dashboard's acquisition layer:                 *)
(*   - MonitoringService (app/services/monitoring_service.py): the point   *)
(*     cache and rolling history of system metrics, the service-health     *)
(*     cache, clear_cache, each method a sequence of reads and writes of   *)
(*     the shared fields run by a request thread;                          *)
(*   - SSHService (app/services/ssh_service.py): the lazily connected,     *)
(*     liveness-probed session, execute_command, port_forward and close;   *)
(*   - make_glances_request (app/api/glances_proxy.py): the metrics fetch  *)
(*     with its retry loop;                                                *)
(*   - bulk_container_action (app/api/containers.py);                      *)
(*   - DockerService.list_containers / get_container_details               *)
(*     (app/services/docker_service.py) and the Container record           *)
(*     (app/models/container.py).                                          *)
(*   - Container.from_docker_dict on the name and the environment of an    *)
(*     inspect document, and the two tables that classify a runtime state. *)
(* Optional values (Python None) are sequences of length 0 or 1.           *)
(***************************************************************************)
EXTENDS Integers, Sequences, FiniteSets, TLC

VARIABLES
  \* ---- MonitoringService ----
  key,                 \* the cache key a run exercises: "metrics" or "health"
  now,                 \* wall clock read by datetime.now(), in seconds
  ticks,               \* number of clock advances so far (bounds the model)
  metricsCache,        \* self._metrics_cache: list of SystemMetrics
  lastMetricsUpdate,   \* self._last_metrics_update: None or a time
  healthCache,         \* self._health_cache: dict service key -> ServiceHealth, as its entries in insertion order
  lastHealthUpdate,    \* self._last_health_update: None or a time
  mAcq,                \* history: last successful metrics acquisition not yet cleared
  mEver,               \* history: time of the last successful metrics acquisition
  mCleared,            \* history: clear_cache ran and no get_system_metrics since
  hAcq,                \* history: last health acquisition not yet cleared
  hEver,               \* history: time of the last health acquisition
  hCleared,            \* history: clear_cache ran and no get_service_health_status since
  mret,                \* observation of a get_system_metrics call, in the state it returns in
  hret,                \* observation of a get_service_health_status call, likewise
  \* ---- SSHService ----
  locking,             \* whether the callers serialize execute/close by an external lock
  client,              \* self._client: None or a handle (an SSHClient object)
  handles,             \* the SSHClient objects created so far, each with its transport state
  meth,                \* per caller: the method it is in, "execute" or "forward"
  pc,                  \* per caller: its position in execute_command or port_forward
  cl,                  \* per caller: the local `client` returned by _get_ssh_client
  tgt,                 \* per caller: the handle it is connecting or executing on
  probed,              \* per caller: what the liveness probe of this call found
  connAttempts,        \* per caller: connect() calls made by this execute call
  submissions,         \* per caller: exec_command() calls made by this execute call
  cause,               \* per caller: the exception first raised in this call, if any
  remote,              \* per caller: what the remote command produced, if it completed
  result,              \* per caller: what execute_command returned or raised
  after,               \* what preceded the latest call: the outcome of the call or close before it
  lastOutcome,         \* history: outcome of the latest completed execute, port_forward or close
  failedProbe,         \* history: the handles that failed a liveness probe of a serialized call
  calls,               \* history: number of execute_command and port_forward calls made (bounds the model)
  closing,             \* position of the thread inside close(): "idle", or "finally" once the handle is closed
  \* ---- make_glances_request ----
  ownJsonError,        \* the build: response.json() raises requests' own JSONDecodeError (requests >= 2.27)
  fpc,                 \* position in make_glances_request
  maxRetries,          \* the max_retries argument
  attempt,             \* the loop variable `attempt`
  outcomes,            \* history: what each requests.get of this fetch met, in order
  sleeps,              \* history: the time.sleep durations of this fetch, in order
  lastException,       \* last_exception: None or the clause and attempt that set it
  fresult,             \* what make_glances_request returned or raised
  \* ---- bulk_container_action ----
  bpc,                 \* position in bulk_container_action
  bAction,             \* the requested action
  bNames,              \* the requested container names, in order
  bIdx,                \* number of names processed so far
  bOutcomes,           \* history: what the service call for each processed name did
  bResults,            \* the `results` dict: name -> per-name result
  bresp,               \* the response body and status code
  bCommands,           \* history: the remote commands this request issued, in order
  \* ---- DockerService listing and inspection ----
  lpc,                 \* position in list_containers
  includeStopped,      \* the include_stopped argument
  quickMode,           \* the quick_mode argument
  payload,             \* the lines of stdout of `docker ps`
  lIdx,                \* number of lines processed so far
  containers,          \* the local list `containers`
  lresult,             \* what list_containers returned or raised
  det,                 \* observation of a get_container_details call
  commands,            \* the docker commands issued through the session, in order
  linspect,            \* what the last `docker inspect` gave: "running", "other", "failed"
  \* ---- DockerService.get_container_stats ----
  stats,               \* observation of a get_container_stats call
  mem,                 \* observation of a _parse_memory_string call
  \* ---- MonitoringService, the request threads ----
  serial,              \* TRUE when the requests are served one at a time
  rpc,                 \* the line each caller is at, "idle" outside a method
  rnow,                \* the local now of each caller
  rlist,               \* the local list of each caller: the pruned history, or health_results
  rval,                \* the local metrics of each caller
  riter,               \* the iterator of each caller's comprehension: its index and the list object it walks
  rStarted,            \* calls started by the overlapping callers
  rProducer,           \* acquisitions started by the overlapping callers
  rAppended,           \* snapshots appended by the overlapping callers
  \* ---- Process registry matcher ----
  matched,             \* observation of a match call
  \* ---- Container API handlers ----
  api,                 \* observation of a container API request
  \* ---- Container.from_docker_dict and the two state tables ----
  doc                  \* observation: one record parsed from an inspect document, or one state string classified by both paths

cacheVars == <<key, now, ticks, metricsCache, lastMetricsUpdate, healthCache, lastHealthUpdate,
               mAcq, mEver, mCleared, hAcq, hEver, hCleared, mret, hret>>

sshVars == <<locking, client, handles, pc, cl, tgt, probed, connAttempts, submissions, cause,
             remote, result, after, lastOutcome, failedProbe, calls, meth, closing>>

fetchVars == <<ownJsonError, fpc, maxRetries, attempt, outcomes, sleeps, lastException, fresult>>

bulkVars == <<bpc, bAction, bNames, bIdx, bOutcomes, bResults, bresp, bCommands>>

listVars == <<lpc, includeStopped, quickMode, payload, lIdx, containers, lresult, det, commands, linspect>>

statVars == <<stats, mem>>

raceVars == <<serial, rpc, rnow, rlist, rval, riter, rStarted, rProducer, rAppended>>

matchVars == <<matched>>

apiVars == <<api>>

docVars == <<doc>>

vars == <<cacheVars, sshVars, fetchVars, bulkVars, listVars, statVars, raceVars, matchVars, apiVars, docVars>>

\* What each component leaves alone.
outsideSSH == <<cacheVars, fetchVars, bulkVars, listVars, statVars, raceVars, matchVars, apiVars, docVars>>
outsideFetch == <<cacheVars, sshVars, bulkVars, listVars, statVars, raceVars, matchVars, apiVars, docVars>>
outsideBulk == <<cacheVars, sshVars, fetchVars, listVars, statVars, raceVars, matchVars, apiVars, docVars>>
outsideList == <<cacheVars, sshVars, fetchVars, bulkVars, statVars, raceVars, matchVars, apiVars, docVars>>
outsideStat == <<cacheVars, sshVars, fetchVars, bulkVars, listVars, raceVars, matchVars, apiVars, docVars>>
outsideMatch == <<cacheVars, sshVars, fetchVars, bulkVars, listVars, statVars, raceVars, apiVars, docVars>>
outsideApi == <<cacheVars, sshVars, fetchVars, bulkVars, listVars, statVars, raceVars, matchVars, docVars>>
outsideDoc == <<cacheVars, sshVars, fetchVars, bulkVars, listVars, statVars, raceVars, matchVars, apiVars>>
outsideCacheAndRace == <<sshVars, fetchVars, bulkVars, listVars, statVars, matchVars, apiVars, docVars>>

(***************************************************************************)
(* Bounds of the model.                                                    *)
(***************************************************************************)
MaxTicks == 3
MaxHistory == 3
MaxHandles == 3
MaxCalls == 3
MaxSharedCalls == 3
MaxRetriesArg == 3
MaxNames == 3
MaxLines == 3
MaxRaceCalls == 3
MaxRaceTicks == 2
MaxEnv == 2

(***************************************************************************)
(* Program constants.                                                      *)
(***************************************************************************)
CacheTtl == 60
SecondsPerDay == 86400
HistoryWindow == 86400

\* Clock advances between two requests: inside the TTL window, exactly the TTL,
\* and one whole day.
Deltas == {59, 60, 86400}

\* cpu_percent values the remote host may report.
Samples == {10, 90}

\* The managed-services table handed to MonitoringService (two of its rows).
ManagedServices == <<[key |-> "sonarr", name |-> "Sonarr", port |-> 103], [key |-> "plex", name |-> "Plex", port |-> 32400]>>

HealthStatuses == {"healthy", "unhealthy", "unknown"}

None == <<>>
Some(x) == <<x>>
IsSome(o) == Len(o) > 0

(***************************************************************************)
(* MonitoringService                                                       *)
(***************************************************************************)

\* timedelta.seconds of (a - b): the seconds component of the normalised
\* timedelta (0 <= seconds < 86400), the days being held apart.
TdSeconds(a, b) == (a - b) % SecondsPerDay

\* A pruning that keeps the snapshot taken exactly one window ago.
PruneHistoryInclusive(cache, t) == SelectSeq(cache, LAMBDA m : m.timestamp >= t - HistoryWindow)

PruneHistoryReversed(cache, t) == SelectSeq(cache, LAMBDA m : m.timestamp < t - HistoryWindow)

\* "Keep only last 24 hours of metrics".
PruneHistory(cache, t) == SelectSeq(cache, LAMBDA m : m.timestamp > t - HistoryWindow)

SecondsPerHour == 3600

\* get_historical_metrics(hours) at time t: the snapshots of the list younger
\* than the cutoff.
GetHistoricalMetrics(cache, hours, t) == SelectSeq(cache, LAMBDA m : m.timestamp > t - hours * SecondsPerHour)

\* The services get_service_health_status probes: those with a port, in table
\* order.
ProbedRows == SelectSeq(ManagedServices, LAMBDA s : s.port # 0)
ProbedKeys == {ProbedRows[i].key : i \in 1..Len(ProbedRows)}

\* self._health_cache is a dict: a sequence of entries in insertion order.
\* An assignment to a key it holds replaces the value in place; a new key is
\* appended.
DictSet(d, k, v) ==
  IF \E i \in 1..Len(d) : d[i].key = k
  THEN [i \in 1..Len(d) |-> IF d[i].key = k THEN [key |-> k, value |-> v] ELSE d[i]]
  ELSE Append(d, [key |-> k, value |-> v])

\* list(self._health_cache.values()).
DictValues(d) == [i \in 1..Len(d) |-> d[i].value]

\* What a call is observed to do: whether it ran the producer (and how many remote
\* acquisitions or probes that made), whether it returned a value, whether that
\* value is the one of the last acquisition, how old that acquisition was,
\* whether the call before it was a failed acquisition, the value returned and
\* the exception that escaped.
NoCall == [called |-> FALSE, useCache |-> FALSE, producer |-> 0, ok |-> FALSE, sameAsCached |-> FALSE, acqAge |-> <<>>,
           afterClear |-> FALSE, everAge |-> <<>>, afterFail |-> FALSE, value |-> <<>>, raised |-> ""]

\* The two cache keys share no state but the clock, and clear_cache acts on both:
\* a run calls the read path of one key, so that the reachable states are the
\* union, not the product, of the two keys' states.
CacheKeys == {"metrics", "health"}

\* The service is one object shared by the request threads and holds no lock.
\* A caller is a thread inside get_system_metrics, get_service_health_status
\* or clear_cache; its steps are the reads and writes of the shared fields,
\* one per line of the method, which other threads may interleave with.  With
\* serial set the requests are served one at a time: a caller enters only
\* when no other is inside.  The histories and the observation of a call are
\* kept for requests served one at a time; the counters are kept for the
\* overlapping ones.
RaceCallers == {1, 2}

InitCache ==
  /\ key \in CacheKeys
  /\ now = 0
  /\ ticks = 0
  /\ metricsCache = <<>>
  /\ lastMetricsUpdate = None
  /\ healthCache = <<>>
  /\ lastHealthUpdate = None
  /\ mAcq = None
  /\ mEver = None
  /\ mCleared = FALSE
  /\ hAcq = None
  /\ hEver = None
  /\ hCleared = FALSE
  /\ mret = NoCall
  /\ hret = NoCall

\* No comprehension is running.  An iterator holds the list object it was
\* made from: the one self._metrics_cache is bound to (of is None), or, once
\* another caller has bound the attribute to a new list, the old object,
\* which nothing can change any more (of holds its elements).
NoIter == [at |-> 0, of |-> None]

InitRace ==
  /\ rpc = [c \in RaceCallers |-> "idle"]
  /\ rnow = [c \in RaceCallers |-> 0]
  /\ rlist = [c \in RaceCallers |-> <<>>]
  /\ rval = [c \in RaceCallers |-> None]
  /\ riter = [c \in RaceCallers |-> NoIter]
  /\ rStarted = 0
  /\ rProducer = 0
  /\ rAppended = 0

AgeOf(o) == IF IsSome(o) THEN Some(now - o[1]) ELSE None

\* A caller may enter a method: alone when the requests are served one at a
\* time, within the budget of calls otherwise.
MayStart(c) ==
  /\ rpc[c] = "idle"
  /\ IF serial THEN \A d \in RaceCallers : rpc[d] = "idle" ELSE rStarted < MaxRaceCalls

Count(n) == IF serial THEN n ELSE n + 1

Carry(o) == IF serial THEN o ELSE NoCall

Hist(new, old) == IF serial THEN new ELSE old

\* The observation opened when a call reads the clock: what the histories say
\* about the last acquisition at that time.
Pending(useCache, acqTime, cleared, ever, last) ==
  IF serial
  THEN [NoCall EXCEPT !.useCache = useCache,
                      !.acqAge = IF IsSome(acqTime) THEN Some(now - acqTime[1]) ELSE None,
                      !.afterClear = cleared,
                      !.everAge = AgeOf(ever),
                      !.afterFail = (last.called /\ last.producer = 1 /\ ~last.ok)]
  ELSE NoCall

\* The observation closed when the call ends.
Ended(obs, producer, ok, same, value, raised) ==
  [obs EXCEPT !.called = TRUE, !.producer = producer, !.ok = ok, !.sameAsCached = same, !.value = value, !.raised = raised]

\* The caller moves to another line of its method.
Moves(c, to) ==
  /\ rpc' = [rpc EXCEPT ![c] = to]
  /\ UNCHANGED <<rnow, rlist, rval>>

\* The caller leaves a line of the cache test: for the try block, an
\* acquisition starts.
Enters(c, to) ==
  /\ Moves(c, to)
  /\ rProducer' = IF to = "acquire" THEN Count(rProducer) ELSE rProducer

\* The method returns or raises: its locals are gone.
Returns(c) ==
  /\ rpc' = [rpc EXCEPT ![c] = "idle"]
  /\ rnow' = [rnow EXCEPT ![c] = 0]
  /\ rlist' = [rlist EXCEPT ![c] = <<>>]
  /\ rval' = [rval EXCEPT ![c] = None]

\* The callers whose acquisition is in flight.
InFlight == {c \in RaceCallers : rpc[c] = "acquire"}

\* A cache test that serves the cached value while an acquisition is in
\* flight.
MetricsMissSingleFlight(c) == IF InFlight # {} THEN "m49" ELSE "acquire"

\* Lines 46-51: a condition of the cache test that fails sends the caller into
\* the try block; nothing else is consulted.
MetricsMiss(c) == "acquire"

\* The clock advances a run may make.
TickBudget == IF serial THEN MaxTicks ELSE MaxRaceTicks

\* Time passes.  Inside a request served alone nothing reads the clock a
\* second time, so there the time the request takes is counted after it.
Tick ==
  /\ ticks < TickBudget
  /\ serial => \A c \in RaceCallers : rpc[c] = "idle"
  /\ \E d \in Deltas : now' = now + d
  /\ ticks' = ticks + 1
  /\ mret' = NoCall
  /\ hret' = NoCall
  /\ UNCHANGED <<key, metricsCache, lastMetricsUpdate, healthCache, lastHealthUpdate, mAcq, mEver, mCleared, hAcq, hEver, hCleared, serial, rpc, rnow, rlist, rval, riter, rStarted, rProducer, rAppended>>
  /\ UNCHANGED outsideCacheAndRace

\* get_system_metrics(use_cache), line 43: now = datetime.now(); use_cache
\* false skips the cache test (line 46, first operand).
GetSystemMetrics(c) ==
  /\ key = "metrics"
  /\ MayStart(c)
  /\ \E useCache \in BOOLEAN :
       /\ rpc' = [rpc EXCEPT ![c] = IF useCache THEN "m46" ELSE "acquire"]
       /\ rProducer' = IF useCache THEN rProducer ELSE Count(rProducer)
       /\ mret' = Pending(useCache, IF IsSome(mAcq) THEN Some(mAcq[1].timestamp) ELSE None, mCleared, mEver, mret)
  /\ rnow' = [rnow EXCEPT ![c] = now]
  /\ rStarted' = Count(rStarted)
  /\ mCleared' = Hist(FALSE, mCleared)
  /\ hret' = NoCall
  /\ UNCHANGED <<key, now, ticks, metricsCache, lastMetricsUpdate, healthCache, lastHealthUpdate, mAcq, mEver, hAcq, hEver, hCleared, serial, riter, rlist, rval, rAppended>>
  /\ UNCHANGED outsideCacheAndRace

\* Line 46, second operand: self._last_metrics_update is read and tested for
\* truth.
MetricsTestUpdate(c) ==
  /\ rpc[c] = "m46"
  /\ Enters(c, IF IsSome(lastMetricsUpdate) THEN "m47" ELSE MetricsMiss(c))
  /\ mret' = Carry(mret)
  /\ hret' = Carry(hret)
  /\ UNCHANGED <<key, now, ticks, metricsCache, lastMetricsUpdate, healthCache, lastHealthUpdate, mAcq, mEver, mCleared, hAcq, hEver, hCleared, serial, riter, rStarted, rAppended>>
  /\ UNCHANGED outsideCacheAndRace

\* Line 47: self._last_metrics_update is read again and subtracted from the
\* caller's now; None there raises TypeError, outside the try block.
MetricsTestAge(c) ==
  /\ rpc[c] = "m47"
  /\ IF lastMetricsUpdate = None
     THEN /\ Returns(c)
          /\ rProducer' = rProducer
          /\ mret' = Ended(mret, 0, FALSE, FALSE, None, "TypeError")
     ELSE /\ Enters(c, IF TdSeconds(rnow[c], lastMetricsUpdate[1]) < CacheTtl THEN "m48" ELSE MetricsMiss(c))
          /\ mret' = Carry(mret)
  /\ hret' = Carry(hret)
  /\ UNCHANGED <<key, now, ticks, metricsCache, lastMetricsUpdate, healthCache, lastHealthUpdate, mAcq, mEver, mCleared, hAcq, hEver, hCleared, serial, riter, rStarted, rAppended>>
  /\ UNCHANGED outsideCacheAndRace

\* Line 48: self._metrics_cache is read and tested for truth.
MetricsTestCache(c) ==
  /\ rpc[c] = "m48"
  /\ Enters(c, IF Len(metricsCache) > 0 THEN "m49" ELSE MetricsMiss(c))
  /\ mret' = Carry(mret)
  /\ hret' = Carry(hret)
  /\ UNCHANGED <<key, now, ticks, metricsCache, lastMetricsUpdate, healthCache, lastHealthUpdate, mAcq, mEver, mCleared, hAcq, hEver, hCleared, serial, riter, rStarted, rAppended>>
  /\ UNCHANGED outsideCacheAndRace

\* Line 49: return self._metrics_cache[-1]; the list is read again, and an
\* empty one raises IndexError, outside the try block.
MetricsReturnCached(c) ==
  /\ rpc[c] = "m49"
  /\ Returns(c)
  /\ mret' = IF Len(metricsCache) = 0
             THEN Ended(mret, 0, FALSE, FALSE, None, "IndexError")
             ELSE Ended(mret, 0, TRUE, Some(metricsCache[Len(metricsCache)]) = mAcq,
                        Some(metricsCache[Len(metricsCache)]), "")
  /\ hret' = Carry(hret)
  /\ UNCHANGED <<key, now, ticks, metricsCache, lastMetricsUpdate, healthCache, lastHealthUpdate, mAcq, mEver, mCleared, hAcq, hEver, hCleared, serial, riter, rStarted, rProducer, rAppended>>
  /\ UNCHANGED outsideCacheAndRace

\* Lines 51-139: the remote commands run and the snapshot is built, stamped
\* with the caller's now; cpu is the sampled figure.  An exception ends the
\* call with None (lines 151-153).
RaceAcquire(c) ==
  /\ rpc[c] = "acquire"
  /\ \E outcome \in {"ok", "fail"}, cpu \in Samples :
       IF outcome = "ok"
       THEN /\ rpc' = [rpc EXCEPT ![c] = "append"]
            /\ rval' = [rval EXCEPT ![c] = Some([timestamp |-> rnow[c], cpu_percent |-> cpu])]
            /\ UNCHANGED <<rnow, rlist>>
            /\ mret' = Carry(mret)
       ELSE /\ Returns(c)
            /\ mret' = Ended(mret, 1, FALSE, FALSE, None, "")
  /\ hret' = Carry(hret)
  /\ UNCHANGED <<key, now, ticks, metricsCache, lastMetricsUpdate, healthCache, lastHealthUpdate, mAcq, mEver, mCleared, hAcq, hEver, hCleared, serial, riter, rStarted, rProducer, rAppended>>
  /\ UNCHANGED outsideCacheAndRace

\* Line 142: self._metrics_cache.append(metrics).
RaceAppend(c) ==
  /\ rpc[c] = "append"
  /\ Len(metricsCache) < MaxHistory
  /\ metricsCache' = Append(metricsCache, rval[c][1])
  /\ rAppended' = Count(rAppended)
  /\ Moves(c, "update")
  /\ mret' = Carry(mret)
  /\ hret' = Carry(hret)
  /\ UNCHANGED <<key, now, ticks, lastMetricsUpdate, healthCache, lastHealthUpdate, mAcq, mEver, mCleared, hAcq, hEver, hCleared, serial, riter, rStarted, rProducer>>
  /\ UNCHANGED outsideCacheAndRace

\* Line 143: self._last_metrics_update = now.
RaceUpdate(c) ==
  /\ rpc[c] = "update"
  /\ lastMetricsUpdate' = Some(rnow[c])
  /\ Moves(c, "prune")
  /\ mret' = Carry(mret)
  /\ hret' = Carry(hret)
  /\ UNCHANGED <<key, now, ticks, metricsCache, healthCache, lastHealthUpdate, mAcq, mEver, mCleared, hAcq, hEver, hCleared, serial, riter, rStarted, rProducer, rAppended>>
  /\ UNCHANGED outsideCacheAndRace

\* Lines 146-147, the comprehension is entered: self._metrics_cache is read
\* and an iterator over that list object is made.
RacePrune(c) ==
  /\ rpc[c] = "prune"
  /\ rlist' = [rlist EXCEPT ![c] = <<>>]
  /\ riter' = [riter EXCEPT ![c] = NoIter]
  /\ rpc' = [rpc EXCEPT ![c] = "prune_next"]
  /\ UNCHANGED <<rnow, rval>>
  /\ mret' = Carry(mret)
  /\ hret' = Carry(hret)
  /\ UNCHANGED <<key, now, ticks, metricsCache, lastMetricsUpdate, healthCache, lastHealthUpdate, mAcq, mEver, mCleared, hAcq, hEver, hCleared, serial, rStarted, rProducer, rAppended>>
  /\ UNCHANGED outsideCacheAndRace

\* Line 147, one turn of the comprehension: the iterator reads the next
\* element of its list as that list is now (an append or a clear() by
\* another caller in between is seen), and the element is kept if it is
\* young enough; with no element left at its index the comprehension ends.
RacePruneNext(c) ==
  /\ rpc[c] = "prune_next"
  /\ LET walked == IF riter[c].of = None THEN metricsCache ELSE riter[c].of[1]
     IN  IF riter[c].at < Len(walked)
         THEN /\ rlist' = [rlist EXCEPT ![c] = rlist[c] \o PruneHistory(<<walked[riter[c].at + 1]>>, rnow[c])]
              /\ riter' = [riter EXCEPT ![c].at = @ + 1]
              /\ UNCHANGED rpc
         ELSE /\ rpc' = [rpc EXCEPT ![c] = "assign"]
              /\ riter' = [riter EXCEPT ![c] = NoIter]
              /\ UNCHANGED rlist
  /\ UNCHANGED <<rnow, rval>>
  /\ mret' = Carry(mret)
  /\ hret' = Carry(hret)
  /\ UNCHANGED <<key, now, ticks, metricsCache, lastMetricsUpdate, healthCache, lastHealthUpdate, mAcq, mEver, mCleared, hAcq, hEver, hCleared, serial, rStarted, rProducer, rAppended>>
  /\ UNCHANGED outsideCacheAndRace

\* Line 147, the assignment, and the return of line 149.  The attribute is
\* bound to the new list: a comprehension of another caller that walks the
\* old list keeps that object.
RaceAssign(c) ==
  /\ rpc[c] = "assign"
  /\ metricsCache' = rlist[c]
  /\ riter' = [d \in RaceCallers |->
                IF d # c /\ rpc[d] = "prune_next" /\ riter[d].of = None
                THEN [riter[d] EXCEPT !.of = Some(metricsCache)]
                ELSE riter[d]]
  /\ Returns(c)
  /\ mret' = Ended(mret, 1, TRUE, rval[c] = mAcq, rval[c], "")
  /\ hret' = Carry(hret)
  /\ mAcq' = Hist(rval[c], mAcq)
  /\ mEver' = Hist(Some(rnow[c]), mEver)
  /\ UNCHANGED <<key, now, ticks, lastMetricsUpdate, healthCache, lastHealthUpdate, mCleared, hAcq, hEver, hCleared, serial, rStarted, rProducer, rAppended>>
  /\ UNCHANGED outsideCacheAndRace

\* get_service_health_status(use_cache), line 164: now = datetime.now();
\* use_cache false skips the cache test (line 167, first operand) and the
\* result list starts empty (line 172).
GetServiceHealthStatus(c) ==
  /\ key = "health"
  /\ MayStart(c)
  /\ \E useCache \in BOOLEAN :
       /\ rpc' = [rpc EXCEPT ![c] = IF useCache THEN "h167" ELSE "probe"]
       /\ hret' = Pending(useCache, IF IsSome(hAcq) THEN Some(hAcq[1].at) ELSE None, hCleared, hEver, NoCall)
  /\ rnow' = [rnow EXCEPT ![c] = now]
  /\ rStarted' = Count(rStarted)
  /\ hCleared' = Hist(FALSE, hCleared)
  /\ mret' = NoCall
  /\ UNCHANGED <<key, now, ticks, metricsCache, lastMetricsUpdate, healthCache, lastHealthUpdate, mAcq, mEver, mCleared, hAcq, hEver, serial, riter, rlist, rval, rProducer, rAppended>>
  /\ UNCHANGED outsideCacheAndRace

\* Line 167, second operand: self._last_health_update is read and tested for
\* truth.
HealthTestUpdate(c) ==
  /\ rpc[c] = "h167"
  /\ Moves(c, IF IsSome(lastHealthUpdate) THEN "h168" ELSE "probe")
  /\ mret' = Carry(mret)
  /\ hret' = Carry(hret)
  /\ UNCHANGED <<key, now, ticks, metricsCache, lastMetricsUpdate, healthCache, lastHealthUpdate, mAcq, mEver, mCleared, hAcq, hEver, hCleared, serial, riter, rStarted, rProducer, rAppended>>
  /\ UNCHANGED outsideCacheAndRace

\* Line 168: self._last_health_update is read again and subtracted from the
\* caller's now; None there raises TypeError.
HealthTestAge(c) ==
  /\ rpc[c] = "h168"
  /\ IF lastHealthUpdate = None
     THEN /\ Returns(c)
          /\ hret' = Ended(hret, 0, FALSE, FALSE, None, "TypeError")
     ELSE /\ Moves(c, IF TdSeconds(rnow[c], lastHealthUpdate[1]) < CacheTtl THEN "h169" ELSE "probe")
          /\ hret' = Carry(hret)
  /\ mret' = Carry(mret)
  /\ UNCHANGED <<key, now, ticks, metricsCache, lastMetricsUpdate, healthCache, lastHealthUpdate, mAcq, mEver, mCleared, hAcq, hEver, hCleared, serial, riter, rStarted, rProducer, rAppended>>
  /\ UNCHANGED outsideCacheAndRace

\* Line 169: self._health_cache is read and tested for truth.
HealthTestCache(c) ==
  /\ rpc[c] = "h169"
  /\ Moves(c, IF Len(healthCache) > 0 THEN "h170" ELSE "probe")
  /\ mret' = Carry(mret)
  /\ hret' = Carry(hret)
  /\ UNCHANGED <<key, now, ticks, metricsCache, lastMetricsUpdate, healthCache, lastHealthUpdate, mAcq, mEver, mCleared, hAcq, hEver, hCleared, serial, riter, rStarted, rProducer, rAppended>>
  /\ UNCHANGED outsideCacheAndRace

\* Line 170: return list(self._health_cache.values()); the dict is read
\* again.
HealthReturnCached(c) ==
  /\ rpc[c] = "h170"
  /\ Returns(c)
  /\ hret' = Ended(hret, 0, TRUE, IsSome(hAcq) /\ DictValues(healthCache) = hAcq[1].value,
                   Some(DictValues(healthCache)), "")
  /\ mret' = Carry(mret)
  /\ UNCHANGED <<key, now, ticks, metricsCache, lastMetricsUpdate, healthCache, lastHealthUpdate, mAcq, mEver, mCleared, hAcq, hEver, hCleared, serial, riter, rStarted, rProducer, rAppended>>
  /\ UNCHANGED outsideCacheAndRace

\* Lines 174-184, one turn of the loop for the next service with a port:
\* _check_service_health returns its verdict, which is appended to the
\* result list and stored in self._health_cache under the service key.
HealthProbe(c) ==
  /\ rpc[c] = "probe"
  /\ Len(rlist[c]) < Len(ProbedRows)
  /\ \E status \in HealthStatuses :
       LET s == ProbedRows[Len(rlist[c]) + 1]
           health == [service_name |-> s.name, status |-> status]
       IN  /\ rlist' = [rlist EXCEPT ![c] = Append(rlist[c], health)]
           /\ healthCache' = DictSet(healthCache, s.key, health)
  /\ UNCHANGED <<rpc, rnow, rval>>
  /\ mret' = Carry(mret)
  /\ hret' = Carry(hret)
  /\ UNCHANGED <<key, now, ticks, metricsCache, lastMetricsUpdate, lastHealthUpdate, mAcq, mEver, mCleared, hAcq, hEver, hCleared, serial, riter, rpc, rnow, rval, rStarted, rProducer, rAppended>>
  /\ UNCHANGED outsideCacheAndRace

\* Lines 186-187, after the loop: self._last_health_update = now; return
\* health_results.
HealthUpdate(c) ==
  /\ rpc[c] = "probe"
  /\ Len(rlist[c]) = Len(ProbedRows)
  /\ lastHealthUpdate' = Some(rnow[c])
  /\ Returns(c)
  /\ hret' = Ended(hret, Len(rlist[c]), TRUE, IsSome(hAcq) /\ rlist[c] = hAcq[1].value, Some(rlist[c]), "")
  /\ mret' = Carry(mret)
  /\ hAcq' = Hist(Some([at |-> rnow[c], value |-> rlist[c]]), hAcq)
  /\ hEver' = Hist(Some(rnow[c]), hEver)
  /\ UNCHANGED <<key, now, ticks, metricsCache, lastMetricsUpdate, healthCache, mAcq, mEver, mCleared, hCleared, serial, riter, rStarted, rProducer, rAppended>>
  /\ UNCHANGED outsideCacheAndRace

\* A clear_cache that returns at once.
ClearCacheSkipped(c) ==
  /\ MayStart(c)
  /\ Returns(c)
  /\ rStarted' = Count(rStarted)
  /\ mAcq' = Hist(None, mAcq)
  /\ hAcq' = Hist(None, hAcq)
  /\ mCleared' = Hist(TRUE, mCleared)
  /\ hCleared' = Hist(TRUE, hCleared)
  /\ mret' = NoCall
  /\ hret' = NoCall
  /\ UNCHANGED <<key, now, ticks, metricsCache, lastMetricsUpdate, healthCache, lastHealthUpdate, mEver, hEver, serial, riter, rProducer, rAppended>>
  /\ UNCHANGED outsideCacheAndRace

\* clear_cache(), line 386: self._metrics_cache.clear(), in place.
ClearCache(c) ==
  /\ MayStart(c)
  /\ metricsCache' = <<>>
  /\ Moves(c, "c387")
  /\ rStarted' = Count(rStarted)
  /\ mAcq' = Hist(None, mAcq)
  /\ hAcq' = Hist(None, hAcq)
  /\ mCleared' = Hist(TRUE, mCleared)
  /\ hCleared' = Hist(TRUE, hCleared)
  /\ mret' = NoCall
  /\ hret' = NoCall
  /\ UNCHANGED <<key, now, ticks, lastMetricsUpdate, healthCache, lastHealthUpdate, mEver, hEver, serial, riter, rProducer, rAppended>>
  /\ UNCHANGED outsideCacheAndRace

\* Line 387: self._health_cache.clear().
ClearHealthCache(c) ==
  /\ rpc[c] = "c387"
  /\ healthCache' = <<>>
  /\ Moves(c, "c388")
  /\ mret' = Carry(mret)
  /\ hret' = Carry(hret)
  /\ UNCHANGED <<key, now, ticks, metricsCache, lastMetricsUpdate, lastHealthUpdate, mAcq, mEver, mCleared, hAcq, hEver, hCleared, serial, riter, rStarted, rProducer, rAppended>>
  /\ UNCHANGED outsideCacheAndRace

\* Line 388: self._last_metrics_update = None.
ClearMetricsUpdate(c) ==
  /\ rpc[c] = "c388"
  /\ lastMetricsUpdate' = None
  /\ Moves(c, "c389")
  /\ mret' = Carry(mret)
  /\ hret' = Carry(hret)
  /\ UNCHANGED <<key, now, ticks, metricsCache, healthCache, lastHealthUpdate, mAcq, mEver, mCleared, hAcq, hEver, hCleared, serial, riter, rStarted, rProducer, rAppended>>
  /\ UNCHANGED outsideCacheAndRace

\* Line 389: self._last_health_update = None, and the method returns.
ClearHealthUpdate(c) ==
  /\ rpc[c] = "c389"
  /\ lastHealthUpdate' = None
  /\ Returns(c)
  /\ mret' = Carry(mret)
  /\ hret' = Carry(hret)
  /\ UNCHANGED <<key, now, ticks, metricsCache, lastMetricsUpdate, healthCache, mAcq, mEver, mCleared, hAcq, hEver, hCleared, serial, riter, rStarted, rProducer, rAppended>>
  /\ UNCHANGED outsideCacheAndRace

(***************************************************************************)
(* SSHService                                                              *)
(*                                                                         *)
(* A handle is an SSHClient object; its state is that of its transport:    *)
(*   "fresh"   constructed, no transport (get_transport() is None);        *)
(*   "alive"   connected and authenticated;                                *)
(*   "unauth"  transport started but authentication failed: paramiko       *)
(*             assigns the transport before it authenticates, so a failed  *)
(*             connect() can leave a transport that is_alive();            *)
(*   "dead"    the transport has stopped;                                  *)
(*   "closed"  close() was called on it.                                   *)
(* execute_command and port_forward are modelled step by step, so that two *)
(* callers sharing the session interleave as threads do; close() runs in a *)
(* thread of its own, in two steps: it closes the handle, then clears      *)
(* self._client.                                                           *)
(***************************************************************************)
Callers == {"a", "b"}

\* What connect() may do: succeed, or raise.
ConnectOutcomes == {"ok", "AuthenticationException", "FileNotFoundError", "socket.timeout", "socket.gaierror", "SSHException"}

\* What exec_command and the reads that follow may do.
ExecOutcomes == {"completed", "socket.timeout", "SSHException", "UnicodeDecodeError"}

\* What a remote command that completes produces.
Responses == {[exit_code |-> 0, stdout |-> "out", stderr |-> ""], [exit_code |-> 1, stdout |-> "", stderr |-> "err"]}

NoResult == [kind |-> "none"]

\* _is_connection_alive.
IsConnectionAlive(c, hs) == IF c = None THEN FALSE ELSE hs[c[1]] \in {"alive", "unauth"}

\* A test that only looks for a missing handle.
NeedsConnectIfAbsent(c, hs) == c = None

\* _get_ssh_client: the test that decides to (re)connect.
NeedsConnect(c, hs) == c = None \/ ~IsConnectionAlive(c, hs)

\* _connect, the inner handler: authentication failures become SSHConnectionError.
ConnectInner(exc) == IF exc \in {"AuthenticationException", "FileNotFoundError"} THEN "SSHConnectionError" ELSE exc

\* _connect, the outer handlers: every Exception leaves as SSHConnectionError.
ConnectRaises(exc) ==
  LET e == ConnectInner(exc)
  IN  IF e = "socket.timeout" THEN "SSHConnectionError"
      ELSE IF e = "socket.gaierror" THEN "SSHConnectionError"
      ELSE "SSHConnectionError"

\* Handlers that wrap the timeout alone.
ExecuteRaisesTimeoutOnly(exc) == IF exc = "socket.timeout" THEN "SSHConnectionError" ELSE exc

\* execute_command, the handlers: every Exception leaves as SSHConnectionError.
ExecuteRaises(exc) == IF exc = "socket.timeout" THEN "SSHConnectionError" ELSE "SSHConnectionError"

\* A handler that tries the command a second time.
ExecFailureRetryOnce(subs) == IF subs < 2 THEN "probe" ELSE "raised"

\* A handler that tries again without bound.
ExecFailureRetryAlways(subs) == "probe"

\* execute_command, where a failed command attempt goes next: the handlers raise.
ExecFailureNext(subs) == "raised"

\* A return that treats a nonzero exit status as a failure.
CommandReturnChecked(resp) == IF resp.exit_code = 0 THEN [kind |-> "result", exit_code |-> resp.exit_code, stdout |-> resp.stdout, stderr |-> resp.stderr] ELSE [kind |-> "error", error |-> "SSHConnectionError"]

\* execute_command, the return: (exit_code, stdout_data, stderr_data).
CommandReturn(resp) == [kind |-> "result", exit_code |-> resp.exit_code, stdout |-> resp.stdout, stderr |-> resp.stderr]

Busy(p) == pc[p] \notin {"idle", "done", "raised"}

\* The external lock: with it, execute, port_forward and close run one at a
\* time.
MayEnter(p) == locking => (closing = "idle" /\ \A q \in Callers \ {p} : ~Busy(q))

\* The calls a run may make: the unlocked interleavings are explored for
\* fewer calls than the serialized ones.
CallBudget == IF locking THEN MaxCalls ELSE MaxSharedCalls

\* The outcome recorded for a call or a close that ends. What a call follows
\* is defined when the calls are serialized; when they overlap, no outcome
\* is recorded.
Outcome(o) == IF locking THEN o ELSE "none"

\* What leaves execute_command is wrapped by its handlers; port_forward
\* re-raises what it caught (lines 224-226).
Surfaced(method, exc) == IF method = "forward" THEN exc ELSE ExecuteRaises(exc)

\* SSHService.__init__ connects at once.
InitSessionEager ==
  /\ client = Some(1)
  /\ handles = <<"alive">>

\* SSHService.__init__: no handle, nothing connected.
InitSession ==
  /\ client = None
  /\ handles = <<>>

InitSSH ==
  /\ InitSession
  /\ pc = [p \in Callers |-> "idle"]
  /\ cl = [p \in Callers |-> None]
  /\ tgt = [p \in Callers |-> None]
  /\ probed = [p \in Callers |-> "none"]
  /\ connAttempts = [p \in Callers |-> 0]
  /\ submissions = [p \in Callers |-> 0]
  /\ cause = [p \in Callers |-> None]
  /\ remote = [p \in Callers |-> None]
  /\ result = [p \in Callers |-> NoResult]
  /\ after = "none"
  /\ lastOutcome = "none"
  /\ failedProbe = {}
  /\ calls = 0
  /\ meth = [p \in Callers |-> "execute"]
  /\ closing = "idle"

\* Every call that has ended has returned to its caller.
AllReturned == \A q \in Callers : pc[q] \notin {"done", "raised"}

\* A public method that starts with _get_ssh_client is entered.
Enter(p, method) ==
  /\ AllReturned
  /\ ~Busy(p)
  /\ MayEnter(p)
  /\ calls < CallBudget
  /\ calls' = calls + 1
  /\ meth' = [meth EXCEPT ![p] = method]
  /\ pc' = [pc EXCEPT ![p] = "probe"]
  /\ after' = lastOutcome
  /\ UNCHANGED <<locking, client, handles, cl, tgt, probed, connAttempts, submissions, cause, remote, result, lastOutcome, failedProbe, closing>>
  /\ UNCHANGED outsideSSH

\* The return or raise statement that ends a call: the caller has the
\* result, and the locals of the call are gone. It is the first thing to
\* happen after the call's last step, so that the result is observed in the
\* state the call ends in.
Return(p) ==
  /\ pc[p] \in {"done", "raised"}
  /\ pc' = [pc EXCEPT ![p] = "idle"]
  /\ meth' = [meth EXCEPT ![p] = "execute"]
  /\ cl' = [cl EXCEPT ![p] = None]
  /\ tgt' = [tgt EXCEPT ![p] = None]
  /\ probed' = [probed EXCEPT ![p] = "none"]
  /\ connAttempts' = [connAttempts EXCEPT ![p] = 0]
  /\ submissions' = [submissions EXCEPT ![p] = 0]
  /\ cause' = [cause EXCEPT ![p] = None]
  /\ remote' = [remote EXCEPT ![p] = None]
  /\ result' = [result EXCEPT ![p] = NoResult]
  /\ UNCHANGED <<locking, client, handles, after, lastOutcome, failedProbe, calls, closing>>
  /\ UNCHANGED outsideSSH

\* execute_command(command, timeout) is entered.
Call(p) == Enter(p, "execute")

\* port_forward(local_port, remote_port) is entered: `with` runs the
\* generator up to its yield.
PortForward(p) == Enter(p, "forward")

\* _get_ssh_client: probe the handle's liveness. The handles that failed a
\* probe are recorded for the serialized calls, like the outcomes.
Probe(p) ==
  /\ AllReturned
  /\ pc[p] = "probe"
  /\ probed' = [probed EXCEPT ![p] = IF client = None THEN "absent" ELSE IF IsConnectionAlive(client, handles) THEN "alive" ELSE "dead"]
  /\ failedProbe' = IF locking /\ client # None /\ ~IsConnectionAlive(client, handles) THEN failedProbe \cup {client[1]} ELSE failedProbe
  /\ pc' = [pc EXCEPT ![p] = IF NeedsConnect(client, handles) THEN "connect_test" ELSE "return_client"]
  /\ UNCHANGED <<locking, client, handles, cl, tgt, connAttempts, submissions, cause, remote, result, after, lastOutcome, calls, meth, closing>>
  /\ UNCHANGED outsideSSH

\* _connect, line 47: `if self._client:` reads the attribute and tests it.
ConnectTest(p) ==
  /\ AllReturned
  /\ pc[p] = "connect_test"
  /\ pc' = [pc EXCEPT ![p] = IF client # None THEN "connect_close" ELSE "connect_new"]
  /\ UNCHANGED <<locking, client, handles, cl, tgt, probed, connAttempts, submissions, cause, remote, result, after, lastOutcome, failedProbe, calls, meth, closing>>
  /\ UNCHANGED outsideSSH

\* _connect, line 48: self._client.close() reads the attribute again and
\* closes the handle then in place; with none there (a concurrent close()
\* cleared it after the test) the call raises AttributeError, which the
\* last handler of _connect turns into SSHConnectionError before any client
\* is made.
ConnectClose(p) ==
  /\ AllReturned
  /\ pc[p] = "connect_close"
  /\ IF client # None
     THEN /\ handles' = [handles EXCEPT ![client[1]] = "closed"]
          /\ pc' = [pc EXCEPT ![p] = "connect_new"]
          /\ UNCHANGED <<cause, result, lastOutcome>>
     ELSE /\ cause' = [cause EXCEPT ![p] = Some("AttributeError")]
          /\ result' = [result EXCEPT ![p] = [kind |-> "error", error |-> Surfaced(meth[p], ConnectRaises("AttributeError"))]]
          /\ lastOutcome' = Outcome("connfail")
          /\ pc' = [pc EXCEPT ![p] = "raised"]
          /\ UNCHANGED handles
  /\ UNCHANGED <<locking, client, cl, tgt, probed, connAttempts, submissions, remote, after, failedProbe, calls, meth, closing>>
  /\ UNCHANGED outsideSSH

\* _connect: self._client = paramiko.SSHClient().
ConnectNew(p) ==
  /\ AllReturned
  /\ pc[p] = "connect_new"
  /\ Len(handles) < MaxHandles
  /\ handles' = Append(handles, "fresh")
  /\ client' = Some(Len(handles) + 1)
  /\ pc' = [pc EXCEPT ![p] = "connect_call"]
  /\ UNCHANGED <<locking, cl, tgt, probed, connAttempts, submissions, cause, remote, result, after, lastOutcome, failedProbe, calls, meth, closing>>
  /\ UNCHANGED outsideSSH

\* _connect: self._client.connect(...) is called on the handle then in place
\* (none, if a concurrent close() removed it: an AttributeError).
ConnectStart(p) ==
  /\ AllReturned
  /\ pc[p] = "connect_call"
  /\ IF client # None
     THEN /\ tgt' = [tgt EXCEPT ![p] = client]
          /\ connAttempts' = [connAttempts EXCEPT ![p] = @ + 1]
          /\ pc' = [pc EXCEPT ![p] = "connecting"]
          /\ UNCHANGED <<cause, result, lastOutcome>>
     ELSE /\ cause' = [cause EXCEPT ![p] = Some("AttributeError")]
          /\ result' = [result EXCEPT ![p] = [kind |-> "error", error |-> Surfaced(meth[p], ConnectRaises("AttributeError"))]]
          /\ lastOutcome' = Outcome("connfail")
          /\ pc' = [pc EXCEPT ![p] = "raised"]
          /\ UNCHANGED <<tgt, connAttempts>>
  /\ UNCHANGED <<locking, client, handles, cl, probed, submissions, remote, after, failedProbe, calls, meth, closing>>
  /\ UNCHANGED outsideSSH

\* _connect: connect() returns or raises; what it raises passes the handlers of
\* _connect and then those of the public method.
ConnectFinish(p) ==
  /\ AllReturned
  /\ pc[p] = "connecting"
  /\ \E outcome \in ConnectOutcomes, left \in {"fresh", "unauth"} :
       LET h == tgt[p][1]
       IN  IF outcome = "ok"
           THEN /\ handles[h] # "closed"
                /\ handles' = [handles EXCEPT ![h] = "alive"]
                /\ pc' = [pc EXCEPT ![p] = "return_client"]
                /\ UNCHANGED <<cause, result, lastOutcome>>
           ELSE /\ handles' = [handles EXCEPT ![h] = IF @ # "fresh" THEN @
                                                     ELSE IF outcome \in {"socket.timeout", "socket.gaierror"} THEN "fresh"
                                                     ELSE left]
                /\ cause' = [cause EXCEPT ![p] = Some(outcome)]
                /\ result' = [result EXCEPT ![p] = [kind |-> "error", error |-> Surfaced(meth[p], ConnectRaises(outcome))]]
                /\ lastOutcome' = Outcome("connfail")
                /\ pc' = [pc EXCEPT ![p] = "raised"]
  /\ UNCHANGED <<locking, client, cl, tgt, probed, connAttempts, submissions, remote, after, failedProbe, calls, meth, closing>>
  /\ UNCHANGED outsideSSH

\* _get_ssh_client: return self._client.
ReturnClient(p) ==
  /\ AllReturned
  /\ pc[p] = "return_client"
  /\ cl' = [cl EXCEPT ![p] = client]
  /\ pc' = [pc EXCEPT ![p] = IF meth[p] = "forward" THEN "fwd_transport" ELSE "exec"]
  /\ UNCHANGED <<locking, client, handles, tgt, probed, connAttempts, submissions, cause, remote, result, after, lastOutcome, failedProbe, calls, meth, closing>>
  /\ UNCHANGED outsideSSH

\* execute_command: client.exec_command(command, timeout) is submitted.
ExecSubmit(p) ==
  /\ AllReturned
  /\ pc[p] = "exec"
  /\ IF cl[p] # None
     THEN /\ tgt' = [tgt EXCEPT ![p] = cl[p]]
          /\ submissions' = [submissions EXCEPT ![p] = @ + 1]
          /\ pc' = [pc EXCEPT ![p] = "executing"]
          /\ UNCHANGED <<cause, result, lastOutcome>>
     ELSE /\ cause' = [cause EXCEPT ![p] = Some("AttributeError")]
          /\ result' = [result EXCEPT ![p] = [kind |-> "error", error |-> ExecuteRaises("AttributeError")]]
          /\ lastOutcome' = Outcome("cmdfail")
          /\ pc' = [pc EXCEPT ![p] = "raised"]
          /\ UNCHANGED <<tgt, submissions>>
  /\ UNCHANGED <<locking, client, handles, cl, probed, connAttempts, remote, after, failedProbe, calls, meth, closing>>
  /\ UNCHANGED outsideSSH

\* execute_command: the command completes and its status and output are read,
\* or the attempt raises. A command completes or times out only on a live,
\* authenticated handle; an SSHException may leave the transport dead.
ExecFinish(p) ==
  /\ AllReturned
  /\ pc[p] = "executing"
  /\ \E outcome \in ExecOutcomes, resp \in Responses, dies \in BOOLEAN :
       LET h == tgt[p][1]
       IN  /\ outcome # "SSHException" => handles[h] = "alive"
           /\ handles' = IF outcome = "SSHException" /\ dies /\ handles[h] \in {"alive", "unauth"}
                         THEN [handles EXCEPT ![h] = "dead"] ELSE handles
           /\ IF outcome = "completed"
              THEN /\ remote' = [remote EXCEPT ![p] = Some(resp)]
                   /\ result' = [result EXCEPT ![p] = CommandReturn(resp)]
                   /\ lastOutcome' = Outcome(IF CommandReturn(resp).kind = "result" THEN "ok" ELSE "cmdfail")
                   /\ pc' = [pc EXCEPT ![p] = IF CommandReturn(resp).kind = "result" THEN "done" ELSE "raised"]
                   /\ UNCHANGED cause
              ELSE /\ cause' = [cause EXCEPT ![p] = Some(outcome)]
                   /\ pc' = [pc EXCEPT ![p] = ExecFailureNext(submissions[p])]
                   /\ IF ExecFailureNext(submissions[p]) = "raised"
                      THEN /\ result' = [result EXCEPT ![p] = [kind |-> "error", error |-> ExecuteRaises(outcome)]]
                           /\ lastOutcome' = Outcome("cmdfail")
                      ELSE UNCHANGED <<result, lastOutcome>>
                   /\ UNCHANGED remote
  /\ UNCHANGED <<locking, client, cl, tgt, probed, connAttempts, submissions, after, failedProbe, calls, meth, closing>>
  /\ UNCHANGED outsideSSH

\* port_forward, lines 216-220 up to the call: client.get_transport() on the
\* handle _get_ssh_client returned. There is no handle after a concurrent
\* close(), and no transport on a handle that is not connected or is closed:
\* both raise AttributeError, which leaves as it is.
ForwardTransport(p) ==
  /\ AllReturned
  /\ pc[p] = "fwd_transport"
  /\ IF cl[p] # None /\ handles[cl[p][1]] \in {"alive", "unauth", "dead"}
     THEN /\ tgt' = [tgt EXCEPT ![p] = cl[p]]
          /\ pc' = [pc EXCEPT ![p] = "fwd_request"]
          /\ UNCHANGED <<cause, result, lastOutcome>>
     ELSE /\ cause' = [cause EXCEPT ![p] = Some("AttributeError")]
          /\ result' = [result EXCEPT ![p] = [kind |-> "error", error |-> Surfaced(meth[p], "AttributeError")]]
          /\ lastOutcome' = Outcome("forward")
          /\ pc' = [pc EXCEPT ![p] = "raised"]
          /\ UNCHANGED tgt
  /\ UNCHANGED <<locking, client, handles, cl, probed, connAttempts, submissions, remote, after, failedProbe, calls, meth, closing>>
  /\ UNCHANGED outsideSSH

\* port_forward, line 220: transport.request_port_forward('', local_port) is
\* granted, and the generator yields the transport (line 222), or it raises;
\* the finally clause cancels the forward and swallows what that raises.
\* A forward is granted only on a live, authenticated transport.
ForwardRequest(p) ==
  /\ AllReturned
  /\ pc[p] = "fwd_request"
  /\ \E outcome \in {"granted", "SSHException"} :
       /\ outcome = "granted" => handles[tgt[p][1]] = "alive"
       /\ IF outcome = "granted"
            THEN /\ pc' = [pc EXCEPT ![p] = "forwarding"]
                 /\ UNCHANGED <<cause, result, lastOutcome>>
            ELSE /\ cause' = [cause EXCEPT ![p] = Some(outcome)]
                 /\ result' = [result EXCEPT ![p] = [kind |-> "error", error |-> Surfaced(meth[p], outcome)]]
                 /\ lastOutcome' = Outcome("forward")
                 /\ pc' = [pc EXCEPT ![p] = "raised"]
  /\ UNCHANGED <<locking, client, handles, cl, tgt, probed, connAttempts, submissions, remote, after, failedProbe, calls, meth, closing>>
  /\ UNCHANGED outsideSSH

\* port_forward, lines 222-233: the body of the `with` statement ends, the
\* generator is resumed and its finally clause cancels the forward; an
\* exception of the body is thrown into the generator, which re-raises it.
ForwardExit(p) ==
  /\ AllReturned
  /\ pc[p] = "forwarding"
  /\ \E body \in {"ended", "Exception"} :
       IF body = "ended"
         THEN /\ result' = [result EXCEPT ![p] = [kind |-> "forwarded"]]
              /\ lastOutcome' = Outcome("forward")
              /\ pc' = [pc EXCEPT ![p] = "done"]
              /\ UNCHANGED cause
         ELSE /\ cause' = [cause EXCEPT ![p] = Some(body)]
              /\ result' = [result EXCEPT ![p] = [kind |-> "error", error |-> Surfaced(meth[p], body)]]
              /\ lastOutcome' = Outcome("forward")
              /\ pc' = [pc EXCEPT ![p] = "raised"]
  /\ UNCHANGED <<locking, client, handles, cl, tgt, probed, connAttempts, submissions, remote, after, failedProbe, calls, meth, closing>>
  /\ UNCHANGED outsideSSH

\* close() (also run by __del__), lines 237-239: nothing to do without a
\* handle; else self._client.close() is called on the handle in place. Only
\* close() removes the handle and one thread runs it, so the handle tested
\* on line 237 is still there on line 239.
Close ==
  /\ AllReturned
  /\ closing = "idle"
  /\ locking => \A q \in Callers : ~Busy(q)
  /\ IF client # None
       THEN /\ handles' = [handles EXCEPT ![client[1]] = "closed"]
            /\ closing' = "finally"
            /\ UNCHANGED lastOutcome
       ELSE /\ lastOutcome' = Outcome("closed")
            /\ UNCHANGED <<handles, closing>>
  /\ UNCHANGED <<locking, client, pc, cl, tgt, probed, connAttempts, submissions, cause, remote, result, after, failedProbe, calls, meth>>
  /\ UNCHANGED outsideSSH

\* A finally clause that keeps the handle.
CloseFinallyKeepsHandle ==
  /\ AllReturned
  /\ closing = "finally"
  /\ closing' = "idle"
  /\ lastOutcome' = Outcome("closed")
  /\ UNCHANGED <<locking, client, handles, pc, cl, tgt, probed, connAttempts, submissions, cause, remote, result, after, failedProbe, calls, meth>>
  /\ UNCHANGED outsideSSH

\* close(), line 244: the finally clause, self._client = None, whatever
\* handle is in place by then.
CloseFinally ==
  /\ AllReturned
  /\ closing = "finally"
  /\ client' = None
  /\ closing' = "idle"
  /\ lastOutcome' = Outcome("closed")
  /\ UNCHANGED <<locking, handles, pc, cl, tgt, probed, connAttempts, submissions, cause, remote, result, after, failedProbe, calls, meth>>
  /\ UNCHANGED outsideSSH

\* The network or the remote host drops a live transport.
TransportDies ==
  /\ AllReturned
  /\ \E h \in 1..Len(handles) :
       /\ handles[h] \in {"alive", "unauth"}
       /\ handles' = [handles EXCEPT ![h] = "dead"]
  /\ UNCHANGED <<locking, client, pc, cl, tgt, probed, connAttempts, submissions, cause, remote, result, after, lastOutcome, failedProbe, calls, meth, closing>>
  /\ UNCHANGED outsideSSH

(***************************************************************************)
(* make_glances_request (app/api/glances_proxy.py)                         *)
(*                                                                         *)
(* One fetch is a loop of at most max_retries requests.get calls.  What a  *)
(* request meets is an input: a transport error of the requests library,   *)
(* or a response with a status code and a body.  The except clauses are    *)
(* tried in the order they are written, so an exception is handled by the  *)
(* first clause naming one of its base classes.                            *)
(***************************************************************************)
DefaultMaxRetries == 3

\* Response bodies: two JSON documents and one that is not JSON.
JsonBodies == {"json1", "json2"}
Bodies == JsonBodies \cup {"not json"}

\* Status codes a response may carry.
Statuses == {200, 404, 500}

\* Exceptions requests.get itself raises: a refused connection, a timeout
\* while connecting, a timeout while reading, too many redirects.
TransportErrors == {"ConnectionError", "ConnectTimeout", "ReadTimeout", "TooManyRedirects"}

AttemptOutcomes ==
  [kind : {"error"}, exc : TransportErrors, status : {0}, body : {""}]
    \cup [kind : {"response"}, exc : {""}, status : Statuses, body : Bodies]

\* response.raise_for_status(): HTTPError for a 4xx or 5xx status.
RaiseForStatus(status) == status >= 400 /\ status < 600

\* The exception one pass through the try block raises, "" when it returns.
AttemptRaises(o) ==
  IF o.kind = "error" THEN o.exc
  ELSE IF RaiseForStatus(o.status) THEN "HTTPError"
  ELSE IF o.body \notin JsonBodies THEN "JSONDecodeError"
  ELSE ""

\* Base classes in requests.exceptions: ConnectTimeout is both a
\* ConnectionError and a Timeout; every exception of the library is a
\* RequestException, and from requests 2.27 on so is the JSONDecodeError that
\* response.json() raises.
IsConnectionError(exc) == exc \in {"ConnectionError", "ConnectTimeout"}
IsTimeout(exc) == exc \in {"ConnectTimeout", "ReadTimeout"}
IsRequestException(exc, own) ==
  \/ exc \in TransportErrors \cup {"HTTPError"}
  \/ exc = "JSONDecodeError" /\ own

\* The except clause that handles an exception: the first that matches.
ExceptClause(exc, own) ==
  IF IsConnectionError(exc) THEN "ConnectionError"
  ELSE IF IsTimeout(exc) THEN "Timeout"
  ELSE IF exc = "HTTPError" THEN "HTTPError"
  ELSE IF IsRequestException(exc, own) THEN "RequestException"
  ELSE "JSONDecodeError"

\* A retry policy for connection errors and timeouts alone.
ClauseRetriesConnectionAndTimeout(clause) == clause \in {"ConnectionError", "Timeout"}

\* A retry policy that also retries HTTP error statuses.
ClauseRetriesHttpToo(clause) == clause \in {"ConnectionError", "Timeout", "RequestException", "HTTPError"}

\* The clauses that set last_exception and go on; the others raise at once.
ClauseRetries(clause) == clause \in {"ConnectionError", "Timeout", "RequestException"}

\* The clauses that call time.sleep before they continue.
ClauseSleeps(clause) == clause \in {"ConnectionError", "RequestException"}

\* A backoff counted from the attempt index itself: no delay before the first
\* retry.
BackoffFromZero(a) == 1 * a

\* time.sleep(1 * (attempt + 1))
Backoff(a) == 1 * (a + 1)

\* A loop guard that is off by one.
MoreAttemptsOffByOne(a, n) == a < n

\* `if attempt < max_retries - 1`: another pass of the loop follows.
MoreAttempts(a, n) == a < n - 1

\* No fetch is running and none has run.
FetchIdle ==
  /\ fpc = "idle"
  /\ maxRetries = DefaultMaxRetries
  /\ attempt = 0
  /\ outcomes = <<>>
  /\ sleeps = <<>>
  /\ lastException = None
  /\ fresult = [kind |-> "none"]

InitFetch ==
  /\ ownJsonError \in BOOLEAN
  /\ FetchIdle

\* make_glances_request(endpoint, max_retries = n) is called: lines 24-30.
FetchStart ==
  /\ fpc \in {"idle", "returned", "raised"}
  /\ \E n \in 0..MaxRetriesArg : maxRetries' = n
  /\ fpc' = "request"
  /\ attempt' = 0
  /\ outcomes' = <<>>
  /\ sleeps' = <<>>
  /\ lastException' = None
  /\ fresult' = [kind |-> "none"]
  /\ UNCHANGED ownJsonError
  /\ UNCHANGED outsideFetch

\* One pass of the loop body up to the sleep: lines 32-57.  A clause that
\* retries either continues or, on the last pass, falls out of the try
\* statement; both lead to the loop header.
FetchAttempt ==
  /\ fpc = "request"
  /\ attempt < maxRetries
  /\ \E o \in AttemptOutcomes :
       LET exc == AttemptRaises(o)
           clause == ExceptClause(exc, ownJsonError)
           failure == [kind |-> "raised", error |-> clause, attempt |-> attempt + 1]
       IN /\ outcomes' = Append(outcomes, o)
          /\ IF exc = ""
               THEN /\ fpc' = "returned"
                    /\ fresult' = [kind |-> "returned", payload |-> o.body]
                    /\ UNCHANGED <<attempt, lastException>>
               ELSE IF ClauseRetries(clause)
                 THEN /\ lastException' = Some(failure)
                      /\ UNCHANGED fresult
                      /\ IF MoreAttempts(attempt, maxRetries) /\ ClauseSleeps(clause)
                           THEN /\ fpc' = "sleeping"
                                /\ UNCHANGED attempt
                           ELSE /\ fpc' = "request"
                                /\ attempt' = attempt + 1
                 ELSE /\ fpc' = "raised"
                      /\ fresult' = failure
                      /\ UNCHANGED <<attempt, lastException>>
  /\ UNCHANGED <<ownJsonError, maxRetries, sleeps>>
  /\ UNCHANGED outsideFetch

\* The loop is exhausted: line 60 raises last_exception, or the generic
\* exception when no pass set it.
FetchExhausted ==
  /\ fpc = "request"
  /\ attempt >= maxRetries
  /\ fpc' = "raised"
  /\ fresult' = IF IsSome(lastException) THEN lastException[1]
                ELSE [kind |-> "raised", error |-> "All attempts failed", attempt |-> 0]
  /\ UNCHANGED <<ownJsonError, maxRetries, attempt, outcomes, sleeps, lastException>>
  /\ UNCHANGED outsideFetch

\* time.sleep(1 * (attempt + 1)) and `continue`: lines 41-42 and 54-55.
FetchSleep ==
  /\ fpc = "sleeping"
  /\ sleeps' = Append(sleeps, Backoff(attempt))
  /\ attempt' = attempt + 1
  /\ fpc' = "request"
  /\ UNCHANGED <<ownJsonError, maxRetries, outcomes, lastException, fresult>>
  /\ UNCHANGED outsideFetch

(***************************************************************************)
(* bulk_container_action (app/api/containers.py)                           *)
(*                                                                         *)
(* The handler validates the request, then calls the service once per      *)
(* name, in order, inside a try statement of its own, and stores a result  *)
(* per name in a dict.  What the service call does for a name is an input: *)
(* it returns True, returns False, or raises.                              *)
(***************************************************************************)
ContainerNames == {"a", "b", "c", "d"}

BulkActions == {"start", "stop", "restart", "kill"}

ValidActions == {"start", "stop", "restart"}

ItemOutcomes == {"true", "false", "raises"}

\* The name lists a request may carry, repeated names included.
NameLists == UNION {[1..n -> ContainerNames] : n \in 0..MaxNames}

Range(f) == {f[i] : i \in DOMAIN f}

EmptyDict == [n \in {} |-> 0]

NoResponse == [code |-> 0]

\* The entry stored for a name: lines 352-360.
ItemResult(out) ==
  IF out = "true" THEN [success |-> TRUE, text |-> "message"]
  ELSE IF out = "false" THEN [success |-> FALSE, text |-> "message"]
  ELSE [success |-> FALSE, text |-> "error"]

\* results[container_name] = ...
StoreResult(res, name, r) == [n \in DOMAIN res \cup {name} |-> IF n = name THEN r ELSE res[n]]

\* A loop that gives up at the first service call that raises.
AfterItemAbortOnRaise(out) == IF out = "raises" THEN "abort" ELSE "items"

\* After an item, whatever it did, the loop goes on to the next name.
AfterItem(out) == "items"

\* A summary that counts the entries instead of the successes.
BulkResponseCountsEntries(res, act, names) ==
  [code |-> 200,
   success |-> \A n \in DOMAIN res : res[n].success,
   results |-> res,
   action |-> act,
   total |-> Len(names),
   successful |-> Cardinality(DOMAIN res)]

\* The response body: lines 362-370.
BulkResponse(res, act, names) ==
  [code |-> 200,
   success |-> \A n \in DOMAIN res : res[n].success,
   results |-> res,
   action |-> act,
   total |-> Len(names),
   successful |-> Cardinality({n \in DOMAIN res : res[n].success})]

\* No bulk request is running and none has run.
BulkIdle ==
  /\ bpc = "idle"
  /\ bAction = ""
  /\ bNames = <<>>
  /\ bIdx = 0
  /\ bOutcomes = <<>>
  /\ bResults = EmptyDict
  /\ bresp = NoResponse
  /\ bCommands = <<>>

InitBulk == BulkIdle

\* A validation that looks at the name list alone.
ValidateBulkNamesOnly(act, names) ==
  IF names = <<>> THEN "No containers specified" ELSE ""

\* The checks on the request body, in the order of lines 328-338: the error
\* text of the first that fails, "" when the request is accepted.
ValidateBulk(act, names) ==
  IF act \notin ValidActions THEN "Invalid action"
  ELSE IF names = <<>> THEN "No containers specified"
  ELSE ""

\* A service call that issues its command a second time.
ItemCommandsReissued(act, name) ==
  <<[action |-> act, name |-> name], [action |-> act, name |-> name]>>

\* The remote commands one pass of the loop issues for a name, lines 345-350:
\* the service method of the action runs one docker command (start_container,
\* stop_container, restart_container); no branch matches another action.
ItemCommands(act, name) ==
  IF act \in ValidActions THEN <<[action |-> act, name |-> name]>> ELSE <<>>

\* The request arrives and is validated: lines 323-341.
BulkStart ==
  /\ bpc = "idle"
  /\ \E act \in BulkActions, names \in NameLists :
       /\ bAction' = act
       /\ bNames' = names
       /\ IF ValidateBulk(act, names) # ""
            THEN /\ bpc' = "done"
                 /\ bresp' = [code |-> 400, success |-> FALSE, error |-> ValidateBulk(act, names)]
            ELSE /\ bpc' = "items"
                 /\ bresp' = NoResponse
  /\ bIdx' = 0
  /\ bOutcomes' = <<>>
  /\ bResults' = EmptyDict
  /\ bCommands' = <<>>
  /\ UNCHANGED outsideBulk

\* The service method is called for the next name and issues its command:
\* lines 343-350.
BulkIssue ==
  /\ bpc = "items"
  /\ bIdx < Len(bNames)
  /\ bCommands' = bCommands \o ItemCommands(bAction, bNames[bIdx + 1])
  /\ bpc' = "call"
  /\ UNCHANGED <<bAction, bNames, bIdx, bOutcomes, bResults, bresp>>
  /\ UNCHANGED outsideBulk

\* The service call is over and its result is stored: lines 352-360.
BulkItem ==
  /\ bpc = "call"
  /\ \E out \in ItemOutcomes :
       /\ bOutcomes' = Append(bOutcomes, out)
       /\ IF AfterItem(out) = "items"
            THEN /\ bResults' = StoreResult(bResults, bNames[bIdx + 1], ItemResult(out))
                 /\ bpc' = "items"
                 /\ bresp' = NoResponse
            ELSE /\ bResults' = bResults
                 /\ bpc' = "done"
                 /\ bresp' = [code |-> 500, success |-> FALSE, error |-> "Internal server error"]
  /\ bIdx' = bIdx + 1
  /\ UNCHANGED <<bAction, bNames, bCommands>>
  /\ UNCHANGED outsideBulk

\* The loop is over: the summary is computed and returned, lines 362-370.
BulkFinish ==
  /\ bpc = "items"
  /\ bIdx = Len(bNames)
  /\ bpc' = "done"
  /\ bresp' = BulkResponse(bResults, bAction, bNames)
  /\ UNCHANGED <<bAction, bNames, bIdx, bOutcomes, bResults, bCommands>>
  /\ UNCHANGED outsideBulk

(***************************************************************************)
(* Container (app/models/container.py) and DockerService.list_containers,  *)
(* _create_basic_container, get_container_details                          *)
(* (app/services/docker_service.py)                                        *)
(*                                                                         *)
(* The stdout of `docker ps --format json` is a sequence of lines.  A line *)
(* is text that is not JSON ("garbage"), JSON that is not an object        *)
(* ("scalar"), or an object, with or without the Names key.  The stdout of *)
(* `docker inspect` is a JSON list holding one blob.                       *)
(***************************************************************************)
Raised(e) == [kind |-> "raised", error |-> e]

\* The members of ContainerStatus.
EnumMembers == {"RUNNING", "STOPPED", "PAUSED", "RESTARTING", "ERROR", "UNKNOWN"}

\* ContainerStatus.<name>: AttributeError for a name the enum does not have.
EnumMember(name) == IF name \in EnumMembers THEN [kind |-> "member", name |-> name] ELSE Raised("AttributeError")

\* The attributes the generated __init__ of the dataclass assigns: one per
\* annotated field of the class body.
InitAssigned ==
  {"id", "name", "image", "status", "created", "started", "ports", "environment", "labels",
   "command", "size", "networks", "is_running", "is_healthy", "health_status",
   "restart_policy", "stats", "logs_tail"}

\* The names the class body binds to a property without a setter.
ReadOnlyProperties == {"is_running", "is_healthy", "uptime", "memory_usage_mb", "primary_port"}

\* The property is_running: status == ContainerStatus.RUNNING.
IsRunning(status) == status = "RUNNING"

\* Container(...): __init__ assigns every field in turn, and assigning to a
\* property that has no setter raises AttributeError.
ContainerInit(name, status) ==
  IF InitAssigned \cap ReadOnlyProperties # {}
    THEN Raised("AttributeError")
    ELSE [kind |-> "container", name |-> name, status |-> status, is_running |-> IsRunning(status)]

\* Names of containers on the host: one of the managed-services table, one not.
HostNames == {"plex", "scratch"}

IsManaged(name) == \E i \in 1..Len(ManagedServices) : ManagedServices[i].key = name

\* The State values of `docker ps` lines.
PsStates == {"running", "exited", "paused", "created"}

PsLines ==
  [kind : {"object"}, hasNames : {TRUE}, name : HostNames, state : PsStates]
    \cup {[kind |-> "object", hasNames |-> FALSE, name |-> "", state |-> "running"],
          [kind |-> "scalar", hasNames |-> FALSE, name |-> "", state |-> ""],
          [kind |-> "garbage", hasNames |-> FALSE, name |-> "", state |-> ""]}

Payloads == UNION {[1..n -> PsLines] : n \in 0..MaxLines}

\* What running `docker ps` through the session does.
PsOutcomes == {"ok", "exit_nonzero", "SSHConnectionError"}

\* The Status values of an inspect blob: strings, the key missing, JSON null.
MissingStatus == "<missing>"
NullStatus == "<null>"
InspectStatuses == {"running", "exited", "paused", "restarting", "dead", "created", "Running", MissingStatus, NullStatus}

\* What running `docker inspect <name>` through the session does.
\* The keys from_docker_dict reads by subscript: Created, Id, Name, Config
\* (for its Image), in the order it reads them.
RequiredKeys == <<"Created", "Id", "Name", "Config">>

\* The required key an inspect blob lacks, "" when it has them all.
MissingKeys == {""} \cup {RequiredKeys[i] : i \in 1..Len(RequiredKeys)}

InspectOutcomes ==
  [kind : {"SSHConnectionError", "exit_nonzero", "bad_json", "empty_list"}, name : {""}, status : {""}, lacks : {""}]
    \cup [kind : {"blob"}, name : HostNames, status : InspectStatuses, lacks : {""}]
    \cup [kind : {"blob"}, name : HostNames, status : {"running"}, lacks : MissingKeys \ {""}]

\* str.lower() on the state strings above.
Lower(s) == IF s = "Running" THEN "running" ELSE s

\* `word in state` on the lower-cased state strings above: none of them
\* contains another as a proper substring.
Contains(state, word) == state = word

\* _create_basic_container, lines 92-100: the name of the enum member chosen.
BasicStatusName(state) ==
  IF Contains(Lower(state), "running") THEN "RUNNING"
  ELSE IF Contains(Lower(state), "exited") THEN "EXITED"
  ELSE IF Contains(Lower(state), "paused") THEN "PAUSED"
  ELSE "CREATED"

\* A producer that also counts a restarting container as running.
IsRunningArgumentLenient(status) == status \in {"RUNNING", "RESTARTING"}

\* The keyword argument is_running=status == ContainerStatus.RUNNING both
\* producers hand to the constructor.
IsRunningArgument(status) == status = "RUNNING"

\* _create_basic_container, lines 92-114: the status and the is_running
\* argument computed for the constructor.
CreateBasicArgs(line) ==
  LET member == EnumMember(BasicStatusName(line.state))
  IN IF member.kind = "raised" THEN member
     ELSE [kind |-> "args", name |-> line.name, status |-> member.name, is_running |-> IsRunningArgument(member.name)]

\* _create_basic_container: None when anything in its try block raised.
CreateBasicContainer(line) ==
  IF line.kind # "object" THEN None
  ELSE LET a == CreateBasicArgs(line)
       IN IF a.kind = "raised" THEN None
          ELSE LET c == ContainerInit(a.name, a.status)
               IN IF c.kind = "raised" THEN None ELSE Some(c)

\* status_map.get(..., ContainerStatus.UNKNOWN) of from_docker_dict.
StatusMap(s) ==
  IF s = "running" THEN "RUNNING"
  ELSE IF s = "exited" THEN "STOPPED"
  ELSE IF s = "paused" THEN "PAUSED"
  ELSE IF s = "restarting" THEN "RESTARTING"
  ELSE IF s = "dead" THEN "ERROR"
  ELSE "UNKNOWN"

\* Container.from_docker_dict: state.get('Status', '') is '' for a missing
\* key and None for a null, and None has no lower(); docker_dict['Created'],
\* ['Id'], ['Name'] and ['Config'] raise KeyError for a missing key.
FromDockerDictArgs(blob) ==
  IF blob.status = NullStatus THEN Raised("AttributeError")
  ELSE IF blob.lacks # "" THEN Raised("KeyError")
  ELSE LET raw == IF blob.status = MissingStatus THEN "" ELSE blob.status
           status == StatusMap(Lower(raw))
       IN [kind |-> "args", name |-> blob.name, status |-> status, is_running |-> IsRunningArgument(status)]

\* Container.from_docker_dict: the arguments are computed, then cls(...) is
\* called with them (lines 151-165).
FromDockerDict(blob) ==
  LET a == FromDockerDictArgs(blob)
  IN IF a.kind = "raised" THEN a ELSE ContainerInit(a.name, a.status)

\* An inspection that lets a transport failure through to its caller.
GetContainerDetailsOfPropagating(inspect) ==
  IF inspect.kind = "SSHConnectionError" THEN Some(Raised("SSHConnectionError"))
  ELSE IF inspect.kind # "blob" THEN None
  ELSE LET c == FromDockerDict(inspect)
       IN IF c.kind = "raised" THEN None ELSE Some(c)

\* get_container_details: None unless the inspection and the parse succeed.
GetContainerDetailsOf(inspect) ==
  IF inspect.kind # "blob" THEN None
  ELSE LET c == FromDockerDict(inspect)
       IN IF c.kind = "raised" THEN None ELSE Some(c)

\* The commands get_container_details issues, lines 133-148: the inspect,
\* then, once the record is built, the statistics of a running container and
\* the log tail.
DetailsCommands(inspect) ==
  IF inspect.kind # "blob" THEN <<"inspect">>
  ELSE LET c == FromDockerDict(inspect)
       IN IF c.kind = "raised" THEN <<"inspect">>
          ELSE <<"inspect">> \o (IF c.is_running THEN <<"stats">> ELSE <<>>) \o <<"logs">>

\* The commands one pass of the loop of list_containers issues.
LineCommands(line, quick, inspect) ==
  IF line.kind # "object" \/ quick THEN <<>>
  ELSE IF ~line.hasNames THEN <<>>
  ELSE DetailsCommands(inspect)

\* What an inspect command gave: no document ("failed", also for a document
\* without a required key or with a null status), or a document whose
\* State.Status is running or is something else.
Inspected(inspect) ==
  IF inspect.kind # "blob" \/ inspect.lacks # "" \/ inspect.status = NullStatus THEN "failed"
  ELSE IF Lower(inspect.status) = "running" THEN "running"
  ELSE "other"

\* One pass of the loop over the lines of list_containers, lines 50-64:
\* "skip" for a line json.loads rejects, "raise" for an exception the inner
\* except clause does not catch, else the record to append, if any.
ProcessLine(line, quick, inspect) ==
  IF line.kind = "garbage" THEN [kind |-> "skip"]
  ELSE IF quick THEN [kind |-> "record", record |-> CreateBasicContainer(line)]
  ELSE IF line.kind = "scalar" THEN Raised("TypeError")
  ELSE IF ~line.hasNames THEN Raised("KeyError")
  ELSE [kind |-> "record", record |-> GetContainerDetailsOf(inspect)]

NoDetails == [called |-> FALSE]

\* No listing or inspection is running and none has run.
ListIdle ==
  /\ lpc = "idle"
  /\ includeStopped = TRUE
  /\ quickMode = FALSE
  /\ payload = <<>>
  /\ lIdx = 0
  /\ containers = <<>>
  /\ lresult = [kind |-> "none"]
  /\ det = NoDetails
  /\ commands = <<>>
  /\ linspect = "none"

InitList == ListIdle

\* list_containers is called and runs `docker ps`: lines 36-47, 73-78.
ListStart ==
  /\ lpc = "idle"
  /\ ~det.called
  /\ \E incl \in BOOLEAN, quick \in BOOLEAN, ps \in PsOutcomes, lines \in Payloads :
       /\ includeStopped' = incl
       /\ quickMode' = quick
       /\ IF ps = "ok"
            THEN /\ payload' = lines
                 /\ lpc' = "lines"
                 /\ lresult' = [kind |-> "none"]
            ELSE /\ payload' = <<>>
                 /\ lpc' = "raised"
                 /\ lresult' = Raised("DockerServiceError")
  /\ lIdx' = 0
  /\ containers' = <<>>
  /\ det' = NoDetails
  /\ commands' = <<"ps">>
  /\ linspect' = "none"
  /\ UNCHANGED outsideList

\* One line of the payload: lines 49-64, and 76-78 when it raises.
ListLine ==
  /\ lpc = "lines"
  /\ lIdx < Len(payload)
  /\ \E inspect \in InspectOutcomes :
       LET r == ProcessLine(payload[lIdx + 1], quickMode, inspect)
           issued == LineCommands(payload[lIdx + 1], quickMode, inspect)
       IN /\ IF r.kind = "raised"
               THEN /\ lpc' = "raised"
                    /\ lresult' = Raised("DockerServiceError")
                    /\ UNCHANGED containers
               ELSE /\ lpc' = "lines"
                    /\ lresult' = lresult
                    /\ containers' = IF r.kind = "record" /\ IsSome(r.record)
                                       THEN Append(containers, r.record[1])
                                       ELSE containers
          /\ commands' = commands \o issued
          /\ linspect' = IF issued = <<>> THEN linspect ELSE Inspected(inspect)
  /\ lIdx' = lIdx + 1
  /\ UNCHANGED <<includeStopped, quickMode, payload, det>>
  /\ UNCHANGED outsideList

\* The loop is over: the list is returned, lines 66-71.
ListFinish ==
  /\ lpc = "lines"
  /\ lIdx = Len(payload)
  /\ lpc' = "done"
  /\ lresult' = [kind |-> "list", count |-> Len(containers)]
  /\ UNCHANGED <<includeStopped, quickMode, payload, lIdx, containers, det, commands, linspect>>
  /\ UNCHANGED outsideList

\* get_container_details(name) called on its own, before any listing or to
\* refresh a container after one: lines 132-158.
GetContainerDetails ==
  /\ lpc \in {"idle", "done"}
  /\ ~det.called
  /\ \E inspect \in InspectOutcomes :
       /\ det' = [called |-> TRUE,
                  inspect |-> inspect,
                  args |-> IF inspect.kind = "blob" THEN FromDockerDictArgs(inspect) ELSE [kind |-> "none"],
                  parsed |-> IF inspect.kind = "blob" THEN FromDockerDict(inspect) ELSE [kind |-> "none"],
                  result |-> GetContainerDetailsOf(inspect)]
       /\ commands' = commands \o DetailsCommands(inspect)
       /\ linspect' = Inspected(inspect)
  /\ UNCHANGED <<lpc, includeStopped, quickMode, payload, lIdx, containers, lresult>>
  /\ UNCHANGED outsideList

(***************************************************************************)
(* DockerService.get_container_stats and _parse_memory_string              *)
(* (app/services/docker_service.py)                                        *)
(*                                                                         *)
(* A string is a sequence of characters, so that upper(), endswith(),      *)
(* slicing, split() and float() are computed on it; the separator " / " of *)
(* the two-part fields is one element.  A size string is a number text     *)
(* followed by a unit text.                                                *)
(***************************************************************************)
Digits == {"0", "1", "2", "3", "4", "5", "6", "7", "8", "9"}

DigitValue(c) ==
  CASE c = "0" -> 0 [] c = "1" -> 1 [] c = "2" -> 2 [] c = "3" -> 3 [] c = "4" -> 4
    [] c = "5" -> 5 [] c = "6" -> 6 [] c = "7" -> 7 [] c = "8" -> 8 [] c = "9" -> 9

\* str.upper() on the characters that occur.
UpperChar(c) ==
  CASE c = "a" -> "A" [] c = "b" -> "B" [] c = "c" -> "C" [] c = "f" -> "F" [] c = "g" -> "G"
    [] c = "i" -> "I" [] c = "k" -> "K" [] c = "m" -> "M" [] c = "n" -> "N" [] c = "t" -> "T"
    [] OTHER -> c

Upper(s) == [i \in 1..Len(s) |-> UpperChar(s[i])]

\* s.endswith(u)
EndsWith(s, u) == Len(s) >= Len(u) /\ SubSeq(s, Len(s) - Len(u) + 1, Len(s)) = u

\* s.rstrip('%')
RECURSIVE RStripPercent(_)
RStripPercent(s) == IF s # <<>> /\ s[Len(s)] = "%" THEN RStripPercent(SubSeq(s, 1, Len(s) - 1)) ELSE s

\* s.split(' / ')
RECURSIVE Split(_)
Split(s) ==
  IF \E i \in 1..Len(s) : s[i] = " / "
    THEN LET i == CHOOSE k \in 1..Len(s) : s[k] = " / " /\ \A j \in 1..(k - 1) : s[j] # " / "
         IN <<SubSeq(s, 1, i - 1)>> \o Split(SubSeq(s, i + 1, Len(s)))
    ELSE <<s>>

RECURSIVE DigitsValue(_)
DigitsValue(s) == IF s = <<>> THEN 0 ELSE 10 * DigitsValue(SubSeq(s, 1, Len(s) - 1)) + DigitValue(s[Len(s)])

IsDigits(s) == s # <<>> /\ \A i \in 1..Len(s) : s[i] \in Digits

\* float(s) on the texts that occur: digits, digits with a fraction of zeros,
\* "inf" in either case; anything else is a ValueError.
Float(s) ==
  IF IsDigits(s) THEN [kind |-> "finite", value |-> DigitsValue(s)]
  ELSE IF \E i \in 2..(Len(s) - 1) :
            /\ s[i] = "."
            /\ IsDigits(SubSeq(s, 1, i - 1))
            /\ \A j \in (i + 1)..Len(s) : s[j] = "0"
    THEN LET i == CHOOSE k \in 2..(Len(s) - 1) : s[k] = "."
         IN [kind |-> "finite", value |-> DigitsValue(SubSeq(s, 1, i - 1))]
  ELSE IF Upper(s) = <<"I", "N", "F">> THEN [kind |-> "inf", value |-> 0]
  ELSE Raised("ValueError")

\* A byte count n * 1024^k, kept as the pair (n, k) since 1024^4 exceeds the
\* integers of the checker; zero has one form.
Bytes(n, k) == [kind |-> "value", value |-> n, power |-> IF n = 0 THEN 0 ELSE k]

\* The `units` dict of _parse_memory_string, in its iteration order; the
\* multiplier 1024^k is kept as k.
Units ==
  <<[unit |-> <<"B">>, power |-> 0],
    [unit |-> <<"K", "B">>, power |-> 1],
    [unit |-> <<"M", "B">>, power |-> 2],
    [unit |-> <<"G", "B">>, power |-> 3],
    [unit |-> <<"T", "B">>, power |-> 4]>>

\* int(value * 1024^power): OverflowError for an infinity, and 0 when float()
\* raised ValueError.
IntOf(f, power) ==
  IF f.kind = "finite" THEN Bytes(f.value, power)
  ELSE IF f.kind = "inf" THEN Raised("OverflowError")
  ELSE Bytes(0, 0)

\* _parse_memory_string: the first unit of the dict the upper-cased string
\* ends with decides, and a ValueError of float() gives 0.
ParseMemoryString(s) ==
  IF s = <<>> \/ s = <<"0", "B">> THEN Bytes(0, 0)
  ELSE LET u == Upper(s)
           hits == {i \in 1..Len(Units) : EndsWith(u, Units[i].unit)}
       IN IF hits # {}
            THEN LET i == CHOOSE k \in hits : \A j \in hits : k <= j
                 IN IntOf(Float(SubSeq(u, 1, Len(u) - Len(Units[i].unit))), Units[i].power)
            ELSE IntOf(Float(u), 0)

\* Number texts and unit texts of the size strings that are tried.
NumTexts == {<<"5", "1", "2">>, <<"2">>, <<"0">>, <<"a", "b", "c">>, <<"i", "n", "f">>, <<>>}

UnitTexts ==
  {<<"B">>, <<"K", "B">>, <<"M", "B">>, <<"G", "B">>, <<"T", "B">>,
   <<"K", "i", "B">>, <<"M", "i", "B">>, <<"G", "i", "B">>, <<"T", "i", "B">>,
   <<"k", "B">>, <<"X", "B">>, <<"Q">>, <<>>}

\* The size strings of the statistics lines that are tried.
SizeSamples == {<<"5", "1", "2", "B">>, <<"5", "1", "2", "M", "i", "B">>, <<"a", "b", "c", "B">>, <<"i", "n", "f", "B">>}

\* A two-part field (MemUsage, NetIO): "used / limit", or a single part.
PairTexts == SizeSamples \cup {a \o <<" / ">> \o b : a \in SizeSamples, b \in SizeSamples}

\* A percentage field (CPUPerc, MemPerc).
PercentTexts == {<<"1", "2", "%">>, <<"-", "-", "%">>, <<>>}

\* A field of the statistics object: absent, or present with a text.
Field(texts) == {None} \cup {Some(t) : t \in texts}

StatsLines == [MemUsage : Field(PairTexts), CPUPerc : Field(PercentTexts), MemPerc : Field(PercentTexts), NetIO : Field(PairTexts)]

\* What running `docker stats --no-stream` through the session gives.
StatsOutcomes == {"line", "exit_nonzero", "empty", "bad_json", "SSHConnectionError"}

\* stats_data.get(key, default)
GetOr(field, default) == IF IsSome(field) THEN field[1] ELSE default

DefaultPair == <<"0", "B", " / ", "0", "B">>
DefaultPercent == <<"0", ".", "0", "0", "%">>

\* float(text) if text else 0.0, of the percentage fields.
PercentOf(text) == IF text = <<>> THEN [kind |-> "finite", value |-> 0] ELSE Float(text)

\* get_container_stats on a parsed first line, lines 186-218: the first
\* exception raised on the way, else the ContainerStats record.
StatsOfLine(line) ==
  LET memory_parts == Split(GetOr(line.MemUsage, DefaultPair))
      memory_used == ParseMemoryString(memory_parts[1])
      memory_limit == ParseMemoryString(IF Len(memory_parts) > 1 THEN memory_parts[2] ELSE <<"0", "B">>)
      cpu_percent == PercentOf(RStripPercent(GetOr(line.CPUPerc, DefaultPercent)))
      mem_percent == PercentOf(RStripPercent(GetOr(line.MemPerc, DefaultPercent)))
      net_parts == Split(GetOr(line.NetIO, DefaultPair))
      net_rx == ParseMemoryString(net_parts[1])
      net_tx == IF Len(net_parts) > 1 THEN ParseMemoryString(net_parts[2]) ELSE Bytes(0, 0)
  IN IF memory_used.kind = "raised" THEN memory_used
     ELSE IF memory_limit.kind = "raised" THEN memory_limit
     ELSE IF cpu_percent.kind = "raised" THEN cpu_percent
     ELSE IF mem_percent.kind = "raised" THEN mem_percent
     ELSE IF net_rx.kind = "raised" THEN net_rx
     ELSE IF net_tx.kind = "raised" THEN net_tx
     ELSE [kind |-> "stats",
           cpu_percent |-> cpu_percent.value,
           memory_usage |-> <<memory_used.value, memory_used.power>>,
           memory_limit |-> <<memory_limit.value, memory_limit.power>>,
           memory_percent |-> mem_percent.value,
           network_rx |-> <<net_rx.value, net_rx.power>>,
           network_tx |-> <<net_tx.value, net_tx.power>>]

\* get_container_stats: None for a failed command, an empty output, and for
\* every exception (lines 220-225).
GetContainerStatsOf(outcome, line) ==
  IF outcome # "line" THEN None
  ELSE LET r == StatsOfLine(line)
       IN IF r.kind = "raised" THEN None ELSE Some(r)

NoStats == [called |-> FALSE]

InitStats ==
  /\ stats = NoStats
  /\ mem = NoStats

\* get_container_stats(name) is called: lines 170-225.  One call is observed
\* in a behaviour.
GetContainerStats ==
  /\ ~stats.called /\ ~mem.called
  /\ \E outcome \in StatsOutcomes, line \in StatsLines :
       /\ outcome # "line" => line = [MemUsage |-> None, CPUPerc |-> None, MemPerc |-> None, NetIO |-> None]
       /\ stats' = [called |-> TRUE, outcome |-> outcome, line |-> line,
                    result |-> GetContainerStatsOf(outcome, line)]
  /\ UNCHANGED <<mem, outsideStat>>

\* _parse_memory_string(num + unit) is called: lines 237-255.  One call is
\* observed in a behaviour.
ParseMemoryStringCall ==
  /\ ~stats.called /\ ~mem.called
  /\ \E num \in NumTexts, unit \in UnitTexts :
       mem' = [called |-> TRUE, num |-> num, unit |-> unit, result |-> ParseMemoryString(num \o unit)]
  /\ UNCHANGED <<stats, outsideStat>>

(***************************************************************************)
(* Process registry and matcher.                                           *)
(*                                                                         *)
(* The table is Config.MANAGED_SERVICES (app/config/settings.py); the      *)
(* matching algorithm is taken from the specification, section 4.3.  A     *)
(* name, an id or an image reference is a sequence of characters, and a    *)
(* substring is a contiguous run of characters.                            *)
(***************************************************************************)
\* Three rows of MANAGED_SERVICES, in the order of the table: the id is the
\* key (sonarr, plex, icarus), the canonical process name is container_name
\* (sonarr, plex, icarus-server).
Descriptors ==
  <<[id |-> <<"s", "o", "n", "a", "r", "r">>, container_name |-> <<"s", "o", "n", "a", "r", "r">>],
    [id |-> <<"p", "l", "e", "x">>, container_name |-> <<"p", "l", "e", "x">>],
    [id |-> <<"i", "c", "a", "r", "u", "s">>,
     container_name |-> <<"i", "c", "a", "r", "u", "s", "-", "s", "e", "r", "v", "e", "r">>]>>

\* Discovered process names.
DiscoveredNames ==
  {<<"s", "o", "n", "a", "r", "r">>,  \* sonarr
   <<"p", "l", "e", "x">>,  \* plex
   <<"i", "c", "a", "r", "u", "s", "-", "s", "e", "r", "v", "e", "r">>,  \* icarus-server
   <<"i", "c", "a", "r", "u", "s">>,  \* icarus
   <<"s", "o", "n", "a", "r", "r", "-", "2">>,  \* sonarr-2
   <<"m", "y", "-", "p", "l", "e", "x">>,  \* my-plex
   <<"p", "l", "e", "x", "-", "s", "o", "n", "a", "r", "r">>,  \* plex-sonarr
   <<"S", "o", "n", "a", "r", "r">>,  \* Sonarr
   <<"d", "b">>,  \* db
   <<"i", "c", "a", "r", "u", "s", "-", "s", "e", "r", "v", "e", "r", "-", "2">>,  \* icarus-server-2
   <<"s", "e", "r", "v", "e", "r">>,  \* server
   <<>>}  \* the empty text

\* Discovered image references.
DiscoveredImages ==
  {<<"l", "i", "n", "u", "x", "s", "e", "r", "v", "e", "r", "/", "s", "o", "n", "a", "r", "r", ":", "l", "a", "t", "e", "s", "t">>,  \* linuxserver/sonarr:latest
   <<"l", "i", "n", "u", "x", "s", "e", "r", "v", "e", "r", "/", "S", "o", "n", "a", "r", "r", ":", "l", "a", "t", "e", "s", "t">>,  \* linuxserver/Sonarr:latest
   <<"p", "l", "e", "x", "i", "n", "c", "/", "p", "m", "s", "-", "d", "o", "c", "k", "e", "r">>,  \* plexinc/pms-docker
   <<"l", "i", "n", "u", "x", "s", "e", "r", "v", "e", "r", "/", "p", "l", "e", "x">>,  \* linuxserver/plex
   <<"P", "L", "E", "X">>,  \* PLEX
   <<"i", "c", "a", "r", "u", "s", "-", "s", "e", "r", "v", "e", "r", ":", "l", "a", "t", "e", "s", "t">>,  \* icarus-server:latest
   <<"p", "o", "s", "t", "g", "r", "e", "s">>,  \* postgres
   <<"s", "o", "n", "a", "r", "r", "-", "p", "l", "e", "x">>,  \* sonarr-plex
   <<>>}  \* the empty text

\* The letters, upper case and lower case.
UpperLetters == <<"A", "B", "C", "D", "E", "F", "G", "H", "I", "J", "K", "L", "M", "N", "O", "P", "Q", "R", "S", "T", "U", "V", "W", "X", "Y", "Z">>
LowerLetters == <<"a", "b", "c", "d", "e", "f", "g", "h", "i", "j", "k", "l", "m", "n", "o", "p", "q", "r", "s", "t", "u", "v", "w", "x", "y", "z">>

\* Lower-casing of a text: each upper-case letter becomes its lower-case
\* letter, every other character stays.
LowerText(s) ==
  [i \in 1..Len(s) |->
     IF \E k \in 1..Len(UpperLetters) : UpperLetters[k] = s[i]
       THEN LowerLetters[CHOOSE k \in 1..Len(UpperLetters) : UpperLetters[k] = s[i]]
       ELSE s[i]]

\* a is a substring of b.
IsSubstring(a, b) == \E i \in 0..(Len(b) - Len(a)) : SubSeq(b, i + 1, i + Len(a)) = a

Tiers == 1..3

\* Whether descriptor d matches at a tier: exact name, name substring, image
\* heuristic.
TierMatches(tier, d, name, image) ==
  CASE tier = 1 -> d.container_name = name
    [] tier = 2 -> IsSubstring(d.container_name, name)
    [] tier = 3 -> IsSubstring(LowerText(d.id), LowerText(image))

\* The rows matching at a tier.
TierHits(tier, name, image) == {i \in 1..Len(Descriptors) : TierMatches(tier, Descriptors[i], name, image)}

\* A matcher that takes the first row matching at any tier.
MatchSinglePass(name, image) ==
  LET hits == TierHits(1, name, image) \cup TierHits(2, name, image) \cup TierHits(3, name, image)
  IN IF hits = {} THEN None
     ELSE Some(Descriptors[CHOOSE i \in hits : \A j \in hits : i <= j])

\* match(name, image): the tiers in order, the first row of the first tier
\* that matches any row.
Match(name, image) ==
  LET matching == {t \in Tiers : TierHits(t, name, image) # {}}
  IN IF matching = {} THEN None
     ELSE LET tier == CHOOSE t \in matching : \A u \in matching : t <= u
              hits == TierHits(tier, name, image)
          IN Some(Descriptors[CHOOSE i \in hits : \A j \in hits : i <= j])

NoMatchCall == [called |-> FALSE]

InitMatch == matched = NoMatchCall

\* match is called on a discovered record.
MatchCall ==
  /\ \E name \in DiscoveredNames, image \in DiscoveredImages :
       matched' = [called |-> TRUE, name |-> name, image |-> image, result |-> Match(name, image)]
  /\ UNCHANGED outsideMatch

(***************************************************************************)
(* Container API handlers (app/api/containers.py) over DockerService and   *)
(* SSHService.                                                             *)
(*                                                                         *)
(* A request is observed by its operation, by its input (the arguments and *)
(* what the remote command of the service call did), and by the response   *)
(* of the handler: the status code, the success flag and the key that      *)
(* carries the text.                                                       *)
(***************************************************************************)
\* What the remote command of a service call does.
RemoteOutcomes == {"ok", "exit_nonzero", "SSHConnectionError"}

\* jsonify(body), code
Response(code, success, text) == [kind |-> "response", code |-> code, success |-> success, text |-> text]

\* The except clauses every handler ends with: DockerServiceError and
\* Exception both answer 500 with success False and an error text.
HandlerExcept(e) == Response(500, FALSE, "error")

\* No `docker inspect` ran for the line.
NotInspected == [kind |-> "none", name |-> "", status |-> "", lacks |-> ""]

\* What the `docker inspect` of one line of a listing may do: fail (nonzero
\* exit, transport error), or print the document of that container, with
\* one of two State.Status values.
ListInspections == {"exit_nonzero", "SSHConnectionError", "Running", "exited"}

\* The outcome of the `docker inspect` of a line.
ListInspection(line, what) ==
  IF what \in {"exit_nonzero", "SSHConnectionError"}
  THEN [kind |-> what, name |-> "", status |-> "", lacks |-> ""]
  ELSE [kind |-> "blob", name |-> line.name, status |-> what, lacks |-> ""]

\* The lines list_containers calls get_container_details for (line 57): in
\* detailed mode, the objects with a Names key, up to the first line whose
\* processing raises.
InspectedLines(quick, printed) ==
  {i \in 1..Len(printed) :
     /\ ~quick
     /\ printed[i].kind = "object" /\ printed[i].hasNames
     /\ \A j \in 1..(i - 1) : ProcessLine(printed[j], quick, NotInspected).kind # "raised"}

\* DockerService.list_containers as the handlers see it: a list, or
\* DockerServiceError for a failed command, for a connection error
\* (lines 44-47, 73-75) and for a line of the output whose processing
\* raises (line 59 in detailed mode, turned into DockerServiceError by
\* lines 76-78).  A line whose inspection fails is left out of the list
\* (get_container_details returns None, line 58).
ListContainersOf(cmd, quick, printed, inspects) ==
  IF cmd # "ok" THEN Raised("DockerServiceError")
  ELSE IF \E i \in 1..Len(printed) : ProcessLine(printed[i], quick, inspects[i]).kind = "raised"
    THEN Raised("DockerServiceError")
  ELSE [kind |-> "list"]

\* A lifecycle method that reports every command that ran as a success.
ControlOfAnyExit(cmd) == cmd # "SSHConnectionError"

\* DockerService.start_container, stop_container, restart_container: True
\* for exit code 0, False for any other exit code and for any exception.
ControlOf(cmd) == cmd = "ok"

\* The calls of execute_docker_command one lifecycle method makes, whatever
\* the command meets: docker_service.py 268, 292-294, 319-321.
ControlCommands(op, cmd) == <<op>>

\* What `docker logs` prints when it succeeds: nothing, or lines.
LogOutputs == {<<>>, <<"line">>, <<"line", "line">>}

\* SSHService.get_container_logs behind DockerService.get_container_logs:
\* the lines printed (none for an output that is empty once stripped), and
\* the empty list for a failed command and for any exception.
LogsOf(cmd, printed) == IF cmd = "ok" THEN printed ELSE <<>>

\* The `quick` query arguments tried: the handler compares the lower-cased
\* text with 'true', and an absent argument is 'false'.
QuickArgs == {"true", "false"}

\* The mode of the listing: quick from the query for the list_containers
\* handler (detailed by default), always quick for containers_overview.
QuickOf(op, quickArg) == IF op = "overview" THEN TRUE ELSE quickArg = "true"

\* list_containers handler and containers_overview handler.
ApiListContainers(op, quickArg, cmd, printed, inspects) ==
  LET r == ListContainersOf(cmd, QuickOf(op, quickArg), printed, inspects)
  IN IF r.kind = "raised" THEN HandlerExcept(r.error) ELSE Response(200, TRUE, "data")

\* get_container handler.
ApiGetContainer(inspect) ==
  IF GetContainerDetailsOf(inspect) = None THEN Response(404, FALSE, "error") ELSE Response(200, TRUE, "data")

\* start_container, stop_container and restart_container handlers.
ApiControl(cmd) ==
  IF ControlOf(cmd) THEN Response(200, TRUE, "message") ELSE Response(500, FALSE, "error")

\* The `lines` query arguments tried: int() accepts the first.
LinesArgs == {"100", "abc"}

\* get_container_logs handler: whatever list the service returns is sent
\* with success True, with its length.
ApiGetContainerLogs(linesArg, cmd, printed) ==
  IF linesArg = "abc" THEN Response(400, FALSE, "error")
  ELSE [kind |-> "response", code |-> 200, success |-> TRUE, text |-> "data",
        logs |-> LogsOf(cmd, printed), lines |-> Len(LogsOf(cmd, printed))]

\* get_container_stats handler.
ApiGetContainerStats(outcome, line) ==
  IF GetContainerStatsOf(outcome, line) = None THEN Response(404, FALSE, "error") ELSE Response(200, TRUE, "data")

RECURSIVE BulkResultsOf(_, _)
\* The results dict of bulk_container_action after the loop over the names.
BulkResultsOf(names, outs) ==
  IF names = <<>> THEN EmptyDict
  ELSE LET n == Len(names)
       IN StoreResult(BulkResultsOf(SubSeq(names, 1, n - 1), SubSeq(outs, 1, n - 1)), names[n], ItemResult(outs[n]))

\* bulk_container_action handler on a valid action: the text of the response
\* is in the per-name entries.
ApiBulkContainerAction(action, names, outs) ==
  IF names = <<>> THEN Response(400, FALSE, "error")
  ELSE LET b == BulkResponse(BulkResultsOf(names, outs), action, names)
       IN Response(b.code, b.success, "results")

NoRequest == [called |-> FALSE]

InitApi == api = NoRequest

\* One request to the list or the overview endpoint.  The remote commands
\* of the request are the `docker ps` and, in a detailed listing, one
\* `docker inspect` for each line inspected.
ApiListRequest ==
  /\ ~api.called
  /\ \E op \in {"list", "overview"}, quickArg \in QuickArgs, cmd \in RemoteOutcomes, printed \in Payloads :
       LET inspected == InspectedLines(QuickOf(op, quickArg), printed)
       IN  /\ cmd # "ok" => printed = <<>>
           /\ \E did \in [inspected -> ListInspections] :
                LET inspects == [i \in 1..Len(printed) |->
                                   IF i \in inspected THEN ListInspection(printed[i], did[i]) ELSE NotInspected]
                IN  api' = [called |-> TRUE, op |-> op, input |-> <<quickArg, cmd, printed>>, inspects |-> inspects,
                            failure |-> \/ cmd # "ok"
                                        \/ \E i \in inspected : inspects[i].kind \in {"exit_nonzero", "SSHConnectionError"},
                            response |-> ApiListContainers(op, quickArg, cmd, printed, inspects)]
  /\ UNCHANGED outsideApi

\* One request to the details endpoint.
ApiDetailsRequest ==
  /\ ~api.called
  /\ \E inspect \in InspectOutcomes :
       api' = [called |-> TRUE, op |-> "details", input |-> inspect,
               failure |-> inspect.kind \in {"exit_nonzero", "SSHConnectionError"},
               response |-> ApiGetContainer(inspect)]
  /\ UNCHANGED outsideApi

\* One request to the start, stop or restart endpoint.
ApiControlRequest ==
  /\ ~api.called
  /\ \E op \in {"start", "stop", "restart"}, cmd \in RemoteOutcomes :
       api' = [called |-> TRUE, op |-> op, input |-> cmd, failure |-> cmd # "ok", response |-> ApiControl(cmd),
               issued |-> ControlCommands(op, cmd), returned |-> ControlOf(cmd)]
  /\ UNCHANGED outsideApi

\* One request to the logs endpoint.
ApiLogsRequest ==
  /\ ~api.called
  /\ \E linesArg \in LinesArgs, cmd \in RemoteOutcomes, printed \in LogOutputs :
       /\ cmd # "ok" => printed = <<>>
       /\ api' = [called |-> TRUE, op |-> "logs", input |-> <<linesArg, cmd, printed>>,
                  failure |-> linesArg = "100" /\ cmd # "ok",
                  response |-> ApiGetContainerLogs(linesArg, cmd, printed)]
  /\ UNCHANGED outsideApi

\* One request to the stats endpoint.
ApiStatsRequest ==
  /\ ~api.called
  /\ \E outcome \in StatsOutcomes, line \in StatsLines :
       /\ outcome # "line" => line = [MemUsage |-> None, CPUPerc |-> None, MemPerc |-> None, NetIO |-> None]
       /\ api' = [called |-> TRUE, op |-> "stats", input |-> <<outcome, line>>,
                  failure |-> outcome \in {"exit_nonzero", "SSHConnectionError"},
                  response |-> ApiGetContainerStats(outcome, line)]
  /\ UNCHANGED outsideApi

\* One request to the bulk endpoint with a valid action; an item whose
\* command fails or whose transport fails is a False of the service.
ApiBulkRequest ==
  /\ ~api.called
  /\ \E action \in ValidActions, names \in NameLists :
       \E outs \in [1..Len(names) -> {"true", "false"}] :
         api' = [called |-> TRUE, op |-> "bulk", input |-> <<action, names, outs>>,
                 failure |-> \E i \in 1..Len(names) : outs[i] = "false",
                 response |-> ApiBulkContainerAction(action, names, outs)]
  /\ UNCHANGED outsideApi

(***************************************************************************)
(* Container.from_docker_dict on the Name and Config.Env of an inspect     *)
(* document, and the two tables that classify a runtime state              *)
(* (app/models/container.py, app/services/docker_service.py).              *)
(*                                                                         *)
(* A text is a sequence of tokens: "/" and "=" are characters, the other   *)
(* tokens are runs of characters that hold neither.                        *)
(***************************************************************************)
\* The inspect documents parsed: names with no, one and several leading
\* slashes, and Env lists of entries with no, one and two "=".
Documents ==
  [Name : {<<"/", "plex">>, <<"plex">>, <<"/", "/", "plex">>, <<"/">>, <<>>, <<"pl", "/", "ex">>},
   Env : UNION {[1..n -> {<<"K", "=", "v">>, <<"K", "=", "u">>, <<"K", "=", "v", "=", "w">>, <<"K">>,
                          <<"=", "v">>, <<"K", "=">>, <<>>, <<"J", "=", "u">>}] : n \in 0..MaxEnv}]

\* The runtime state strings classified.
StateStrings == {"running", "exited", "paused", "restarting", "dead", "created", "Running"}

RECURSIVE LStripSlash(_)
\* str.lstrip('/'): every leading "/" is removed.
LStripSlash(s) == IF s # <<>> /\ Head(s) = "/" THEN LStripSlash(Tail(s)) ELSE s

\* '=' in env
HasEq(e) == \E i \in 1..Len(e) : e[i] = "="

\* env.split('=', 1) of an entry that holds "=": the text before its first
\* "=" and the text after it.
SplitEnv(e) ==
  LET i == CHOOSE k \in 1..Len(e) : e[k] = "=" /\ \A j \in 1..(k - 1) : e[j] # "="
  IN <<SubSeq(e, 1, i - 1), SubSeq(e, i + 1, Len(e))>>

RECURSIVE Environment(_)
\* dict(env.split('=', 1) for env in ... if '=' in env): a later pair with
\* the same key replaces an earlier one.
Environment(env) ==
  IF env = <<>> THEN EmptyDict
  ELSE LET n == Len(env)
           d == Environment(SubSeq(env, 1, n - 1))
       IN IF HasEq(env[n])
            THEN [k \in DOMAIN d \cup {SplitEnv(env[n])[1]} |->
                    IF k = SplitEnv(env[n])[1] THEN SplitEnv(env[n])[2] ELSE d[k]]
            ELSE d

\* Container.from_docker_dict on a document with every required key and
\* State.Status running: the keyword arguments are computed, then the
\* constructor is called with them.
FromDockerDictDoc(d) ==
  LET c == ContainerInit(LStripSlash(d.Name), StatusMap(Lower("running")))
  IN IF c.kind = "raised" THEN c
     ELSE [kind |-> "container", name |-> c.name, status |-> c.status, is_running |-> c.is_running,
           environment |-> Environment(d.Env)]

InitDoc == doc = [called |-> FALSE]

\* One inspect document is parsed.
FromDockerDictCall ==
  /\ ~doc.called
  /\ \E d \in Documents :
       doc' = [called |-> TRUE, op |-> "parse", input |-> d, parsed |-> FromDockerDictDoc(d)]
  /\ UNCHANGED outsideDoc

\* One state string is classified by _create_basic_container, as the State
\* of a summary line, and by from_docker_dict behind get_container_details,
\* as the State.Status of an inspect document.
ClassifyCall ==
  /\ ~doc.called
  /\ \E s \in StateStrings :
       doc' = [called |-> TRUE, op |-> "classify", input |-> s,
               quick |-> CreateBasicContainer([kind |-> "object", hasNames |-> TRUE, name |-> "plex", state |-> s]),
               quickMember |-> EnumMember(BasicStatusName(s)),
               detailed |-> GetContainerDetailsOf([kind |-> "blob", name |-> "plex", status |-> s, lacks |-> ""]),
               detailedMember |-> EnumMember(StatusMap(Lower(s)))]
  /\ UNCHANGED outsideDoc

(***************************************************************************)
(* Specifications                                                          *)
(***************************************************************************)
NextCache ==
  \/ Tick
  \/ \E c \in RaceCallers : GetSystemMetrics(c)
  \/ \E c \in RaceCallers : MetricsTestUpdate(c)
  \/ \E c \in RaceCallers : MetricsTestAge(c)
  \/ \E c \in RaceCallers : MetricsTestCache(c)
  \/ \E c \in RaceCallers : MetricsReturnCached(c)
  \/ \E c \in RaceCallers : RaceAcquire(c)
  \/ \E c \in RaceCallers : RaceAppend(c)
  \/ \E c \in RaceCallers : RaceUpdate(c)
  \/ \E c \in RaceCallers : RacePrune(c)
  \/ \E c \in RaceCallers : RacePruneNext(c)
  \/ \E c \in RaceCallers : RaceAssign(c)
  \/ \E c \in RaceCallers : GetServiceHealthStatus(c)
  \/ \E c \in RaceCallers : HealthTestUpdate(c)
  \/ \E c \in RaceCallers : HealthTestAge(c)
  \/ \E c \in RaceCallers : HealthTestCache(c)
  \/ \E c \in RaceCallers : HealthReturnCached(c)
  \/ \E c \in RaceCallers : HealthProbe(c)
  \/ \E c \in RaceCallers : HealthUpdate(c)
  \/ \E c \in RaceCallers : ClearCache(c)
  \/ \E c \in RaceCallers : ClearHealthCache(c)
  \/ \E c \in RaceCallers : ClearMetricsUpdate(c)
  \/ \E c \in RaceCallers : ClearHealthUpdate(c)

\* The caches of MonitoringService, the session idle.
InitCacheSpec ==
  /\ InitCache
  /\ InitSSH
  /\ locking = TRUE
  /\ InitFetch
  /\ ownJsonError = TRUE
  /\ InitBulk
  /\ InitList
  /\ InitStats
  /\ InitRace
  /\ serial = TRUE
  /\ InitMatch
  /\ InitApi
  /\ InitDoc

SpecCache == InitCacheSpec /\ [][NextCache]_vars

NextSSH ==
  \/ \E p \in Callers : Call(p)
  \/ \E p \in Callers : PortForward(p)
  \/ \E p \in Callers : Return(p)
  \/ \E p \in Callers : Probe(p)
  \/ \E p \in Callers : ConnectTest(p)
  \/ \E p \in Callers : ConnectClose(p)
  \/ \E p \in Callers : ConnectNew(p)
  \/ \E p \in Callers : ConnectStart(p)
  \/ \E p \in Callers : ConnectFinish(p)
  \/ \E p \in Callers : ReturnClient(p)
  \/ \E p \in Callers : ExecSubmit(p)
  \/ \E p \in Callers : ExecFinish(p)
  \/ \E p \in Callers : ForwardTransport(p)
  \/ \E p \in Callers : ForwardRequest(p)
  \/ \E p \in Callers : ForwardExit(p)
  \/ Close
  \/ CloseFinally
  \/ TransportDies

\* The session used as the component design requires: its callers serialized.
InitSessionSpec ==
  /\ InitCache
  /\ key = "metrics"
  /\ InitSSH
  /\ locking = TRUE
  /\ InitFetch
  /\ ownJsonError = TRUE
  /\ InitBulk
  /\ InitList
  /\ InitStats
  /\ InitRace
  /\ serial = TRUE
  /\ InitMatch
  /\ InitApi
  /\ InitDoc

SpecSession == InitSessionSpec /\ [][NextSSH]_vars

\* The session shared by two callers, with or without the external lock.
InitSharedSpec ==
  /\ InitCache
  /\ key = "metrics"
  /\ InitSSH
  /\ locking \in BOOLEAN
  /\ InitFetch
  /\ ownJsonError = TRUE
  /\ InitBulk
  /\ InitList
  /\ InitStats
  /\ InitRace
  /\ serial = TRUE
  /\ InitMatch
  /\ InitApi
  /\ InitDoc

SpecShared == InitSharedSpec /\ [][NextSSH]_vars

NextFetch ==
  \/ FetchStart
  \/ FetchAttempt
  \/ FetchSleep
  \/ FetchExhausted

\* The metrics fetch, on either build of the requests library.
InitFetchSpec ==
  /\ InitCache
  /\ key = "metrics"
  /\ InitSSH
  /\ locking = TRUE
  /\ InitFetch
  /\ InitBulk
  /\ InitList
  /\ InitStats
  /\ InitRace
  /\ serial = TRUE
  /\ InitMatch
  /\ InitApi
  /\ InitDoc

SpecFetch == InitFetchSpec /\ [][NextFetch]_vars

\* The fetch never waits forever: a request returns or times out, a sleep ends.
SpecFetchLive == SpecFetch /\ WF_vars(FetchAttempt) /\ WF_vars(FetchSleep) /\ WF_vars(FetchExhausted)

NextBulk ==
  \/ BulkStart
  \/ BulkIssue
  \/ BulkItem
  \/ BulkFinish

InitBulkSpec ==
  /\ InitCache
  /\ key = "metrics"
  /\ InitSSH
  /\ locking = TRUE
  /\ InitFetch
  /\ ownJsonError = TRUE
  /\ InitBulk
  /\ InitList
  /\ InitStats
  /\ InitRace
  /\ serial = TRUE
  /\ InitMatch
  /\ InitApi
  /\ InitDoc

SpecBulk == InitBulkSpec /\ [][NextBulk]_vars

NextList ==
  \/ ListStart
  \/ ListLine
  \/ ListFinish
  \/ GetContainerDetails

InitListSpec ==
  /\ InitCache
  /\ key = "metrics"
  /\ InitSSH
  /\ locking = TRUE
  /\ InitFetch
  /\ ownJsonError = TRUE
  /\ InitBulk
  /\ InitList
  /\ InitStats
  /\ InitRace
  /\ serial = TRUE
  /\ InitMatch
  /\ InitApi
  /\ InitDoc

SpecList == InitListSpec /\ [][NextList]_vars

NextStats ==
  \/ GetContainerStats
  \/ ParseMemoryStringCall

InitStatsSpec ==
  /\ InitCache
  /\ key = "metrics"
  /\ InitSSH
  /\ locking = TRUE
  /\ InitFetch
  /\ ownJsonError = TRUE
  /\ InitBulk
  /\ InitList
  /\ InitStats
  /\ InitRace
  /\ serial = TRUE
  /\ InitMatch
  /\ InitApi
  /\ InitDoc

SpecStats == InitStatsSpec /\ [][NextStats]_vars

\* The same methods, the requests overlapping.
InitRaceSpec ==
  /\ InitCache
  /\ InitSSH
  /\ locking = TRUE
  /\ InitFetch
  /\ ownJsonError = TRUE
  /\ InitBulk
  /\ InitList
  /\ InitStats
  /\ InitRace
  /\ serial = FALSE
  /\ InitMatch
  /\ InitApi
  /\ InitDoc

SpecRace == InitRaceSpec /\ [][NextCache]_vars

NextMatch ==
  \/ MatchCall

InitMatchSpec ==
  /\ InitCache
  /\ InitSSH
  /\ locking = TRUE
  /\ InitFetch
  /\ ownJsonError = TRUE
  /\ InitBulk
  /\ InitList
  /\ InitStats
  /\ InitRace
  /\ serial = TRUE
  /\ InitMatch
  /\ InitApi
  /\ InitDoc

SpecMatch == InitMatchSpec /\ [][NextMatch]_vars

NextApi ==
  \/ ApiListRequest
  \/ ApiDetailsRequest
  \/ ApiControlRequest
  \/ ApiLogsRequest
  \/ ApiStatsRequest
  \/ ApiBulkRequest

InitApiSpec ==
  /\ InitCache
  /\ key = "metrics"
  /\ InitSSH
  /\ locking = TRUE
  /\ InitFetch
  /\ ownJsonError = TRUE
  /\ InitBulk
  /\ InitList
  /\ InitStats
  /\ InitRace
  /\ serial = TRUE
  /\ InitMatch
  /\ InitApi
  /\ InitDoc

SpecApi == InitApiSpec /\ [][NextApi]_vars

NextDoc ==
  \/ FromDockerDictCall
  \/ ClassifyCall

InitDocSpec ==
  /\ InitCache
  /\ key = "metrics"
  /\ InitSSH
  /\ locking = TRUE
  /\ InitFetch
  /\ ownJsonError = TRUE
  /\ InitBulk
  /\ InitList
  /\ InitStats
  /\ InitRace
  /\ serial = TRUE
  /\ InitMatch
  /\ InitApi
  /\ InitDoc

SpecDoc == InitDocSpec /\ [][NextDoc]_vars

(***************************************************************************)
(* Properties of the metrics and health caches (checked under SpecCache,   *)
(* the requests served one at a time).                                     *)
(***************************************************************************)

\* C1: with use_cache=True, a call made while the last acquisition (not cleared
\* since) is younger than the ttl runs no producer (no remote command, no probe)
\* and returns the value of that acquisition.
C1_HitInsideTtl ==
  /\ (mret.called /\ mret.useCache /\ IsSome(mret.acqAge) /\ mret.acqAge[1] < CacheTtl)
       => (mret.producer = 0 /\ mret.ok /\ mret.sameAsCached)
  /\ (hret.called /\ hret.useCache /\ IsSome(hret.acqAge) /\ hret.acqAge[1] < CacheTtl)
       => (hret.producer = 0 /\ hret.ok /\ hret.sameAsCached)

\* A second call 59 s after the acquisition was served from the cache.
C1_Witness ==
  /\ mret.called /\ mret.useCache /\ mret.acqAge = Some(59)
  /\ mret.producer = 0 /\ mret.sameAsCached

\* C2: with use_cache=True, a call made when the last acquisition is at least
\* ttl old, however old, runs the producer again.
C2_RefreshAtOrAfterTtl ==
  /\ (mret.called /\ mret.useCache /\ IsSome(mret.acqAge) /\ mret.acqAge[1] >= CacheTtl)
       => mret.producer = 1
  /\ (hret.called /\ hret.useCache /\ IsSome(hret.acqAge) /\ hret.acqAge[1] >= CacheTtl)
       => hret.producer = Cardinality(ProbedKeys)

\* C3: the first read of either key after clear_cache() runs its producer,
\* whatever the age of the acquisition that preceded the clear.
C3_ClearForcesRefresh ==
  /\ (mret.called /\ mret.afterClear) => mret.producer = 1
  /\ (hret.called /\ hret.afterClear) => (hret.producer = Cardinality(ProbedKeys) /\ hret.producer > 0)

\* A read with use_cache=True, right after a clear, of a key acquired less than
\* ttl ago: the producer ran.
C3_Witness ==
  /\ hret.called /\ hret.afterClear /\ hret.useCache
  /\ IsSome(hret.everAge) /\ hret.everAge[1] < CacheTtl
  /\ hret.producer > 0

(***************************************************************************)
(* Properties of the transport session.  C4-C8 and C10 are checked under   *)
(* SpecSession (serialized callers), C9 under SpecShared.                  *)
(***************************************************************************)
Finished(p) == pc[p] \in {"done", "raised"}
FoundDead(p) == probed[p] \in {"absent", "dead"}

\* C4: a command is submitted only after the liveness probe; when the probe
\* found no handle or a dead one, exactly one new connection was established
\* first and the command goes to that new handle, never to a handle that
\* failed its probe.
C4_ProbeBeforeSubmit ==
  \A p \in Callers :
    pc[p] = "executing" =>
      /\ probed[p] # "none"
      /\ tgt[p][1] \notin failedProbe
      /\ FoundDead(p) => (connAttempts[p] = 1 /\ tgt[p] = client)
      /\ ~FoundDead(p) => connAttempts[p] = 0

\* A command in flight on the handle that replaced one found dead.
C4_Witness ==
  \E p \in Callers : pc[p] = "executing" /\ probed[p] = "dead" /\ connAttempts[p] = 1 /\ failedProbe # {}

\* C5 as stated: a call whose command attempt failed has reconnected and
\* submitted the command a second time before the failure is surfaced.
C5_RetriesOnce ==
  \A p \in Callers :
    (pc[p] = "raised" /\ submissions[p] >= 1) => submissions[p] = 2

\* C5 as the code has it: a call whose command attempt failed surfaces the
\* failure as SSHConnectionError after exactly one submission, with no
\* reconnection after the failure (the only connection of the call is the one
\* its probe asked for, before the submission).
C5_NoRetry ==
  \A p \in Callers :
    (pc[p] = "raised" /\ submissions[p] >= 1) =>
      /\ submissions[p] = 1
      /\ connAttempts[p] = (IF FoundDead(p) THEN 1 ELSE 0)
      /\ result[p] = [kind |-> "error", error |-> "SSHConnectionError"]

\* A command that timed out, surfaced after one submission.
C5_Witness ==
  \E p \in Callers : pc[p] = "raised" /\ submissions[p] = 1 /\ cause[p] = Some("socket.timeout")

\* C6: a call makes at most two connection attempts and at most two command
\* submissions, and ends with a CommandResult or with SSHConnectionError.
C6_BoundedAttempts ==
  \A p \in Callers :
    /\ connAttempts[p] <= 2
    /\ submissions[p] <= 2
    /\ (Finished(p) /\ meth[p] = "execute") => (result[p].kind = "result" \/ result[p] = [kind |-> "error", error |-> "SSHConnectionError"])

\* A call that connected, submitted and failed: one attempt of each.
C6_Witness ==
  \E p \in Callers : pc[p] = "raised" /\ connAttempts[p] = 1 /\ submissions[p] = 1 /\ cause[p] = Some("SSHException")

\* C7: whatever was raised while connecting or running the command, the call
\* ends raising, and what execute_command raises is SSHConnectionError.
C7_OnlyTransportError ==
  \A p \in Callers :
    /\ cause[p] # None => pc[p] = "raised"
    /\ (pc[p] = "raised" /\ meth[p] = "execute") => result[p] = [kind |-> "error", error |-> "SSHConnectionError"]

\* A call that failed to authenticate.
C7_Witness ==
  \E p \in Callers : pc[p] = "raised" /\ cause[p] = Some("AuthenticationException") /\ result[p].error = "SSHConnectionError"

\* C8 as stated, for the call that follows a close() or a failed command: it
\* attempts a fresh connection. (The claim says the same of the call that
\* follows a failed connection.)
C8_FreshConnectionAfterFailure ==
  \A p \in Callers :
    (Finished(p) /\ after \in {"closed", "cmdfail"}) => connAttempts[p] >= 1

C8_State ==
  /\ calls = 0 => (client = None /\ handles = <<>>)
  /\ (lastOutcome = "closed" /\ closing = "idle" /\ \A p \in Callers : ~Busy(p)) => client = None
  /\ \A p \in Callers :
       /\ (Finished(p) /\ after = "closed") => connAttempts[p] = 1
       /\ (Finished(p) /\ after \in {"connfail", "cmdfail"}) =>
            /\ connAttempts[p] = 1 <=> FoundDead(p)
            /\ submissions[p] >= 1 => tgt[p][1] \notin failedProbe

C8_RepeatedClose ==
  (lastOutcome = "closed" /\ (\A p \in Callers : ~Busy(p)) /\ Close) => UNCHANGED <<client, handles, closing, pc, result>>

\* C8 as the code has it: nothing is connected before the first command or
\* port forward; after close() no handle is held and a repeated close()
\* changes nothing; the call that follows a close() attempts a fresh
\* connection; the call that follows a failed connection or command attempts
\* a fresh connection exactly when the handle is absent or fails its liveness
\* probe, and never submits on a handle that failed the probe.
C8_Lifecycle == []C8_State /\ [][C8_RepeatedClose]_vars

\* A call that follows a failed connection, reconnects and completes.
C8_Witness ==
  \E p \in Callers : pc[p] = "done" /\ after = "connfail" /\ connAttempts[p] = 1

\* The handle a caller is connecting or executing on has been closed, or
\* replaced as the session's handle.
Interference(p) ==
  /\ pc[p] \in {"connecting", "executing"}
  /\ handles[tgt[p][1]] = "closed" \/ client # tgt[p]

\* C9: with the external lock, no caller ever finds the handle it is connecting
\* or executing on closed or replaced by another, at most one caller is inside
\* execute, and a call reconnects exactly once when its probe found the session
\* absent or dead and not at all otherwise.
C9_LockedNoInterference ==
  locking =>
    /\ \A p \in Callers : ~Interference(p)
    /\ Cardinality({p \in Callers : Busy(p)}) <= 1
    /\ \A p \in Callers :
         pc[p] \in {"return_client", "exec", "executing", "done"} => connAttempts[p] = (IF FoundDead(p) THEN 1 ELSE 0)

\* Without the lock: two callers both found the session dead and both started
\* a reconnection, and the handle one of them is connecting on has been closed
\* by the other.
C9_Witness ==
  /\ ~locking
  /\ \E p, q \in Callers :
       /\ p # q
       /\ probed[p] = "dead" /\ probed[q] = "dead"
       /\ pc[p] = "connecting" /\ handles[tgt[p][1]] = "closed"
       /\ pc[q] \in {"connect_new", "connect_call", "connecting"}

\* C10: a command that completes, whatever its exit status, was submitted once
\* and is returned with that status and the captured stdout and stderr; it is
\* not turned into a failure.
C10_NonzeroExitReturned ==
  \A p \in Callers :
    remote[p] # None =>
      /\ pc[p] = "done"
      /\ submissions[p] = 1
      /\ result[p] = [kind |-> "result", exit_code |-> remote[p][1].exit_code, stdout |-> remote[p][1].stdout, stderr |-> remote[p][1].stderr]

\* A command that exited with status 1.
C10_Witness ==
  \E p \in Callers : pc[p] = "done" /\ result[p].kind = "result" /\ result[p].exit_code = 1 /\ result[p].stderr = "err"

(***************************************************************************)
(* Properties of the metrics fetch (checked under SpecFetch, and C14 under *)
(* SpecFetchLive).                                                         *)
(***************************************************************************)
FetchDone == fpc \in {"returned", "raised"}
FetchRunning == fpc \in {"request", "sleeping"}
TimedOut(o) == o.kind = "error" /\ o.exc \in {"ConnectTimeout", "ReadTimeout"}
Succeeded(o) == o.kind = "response" /\ o.status = 200 /\ o.body \in JsonBodies
\* The fetch has raised, or has left the loop and is about to.
FetchFailing ==
  \/ fpc = "raised" /\ fresult.kind = "raised"
  \/ fpc = "request" /\ attempt >= maxRetries

\* C11: a fetch (of at least three attempts) whose first two attempts time out
\* goes on to a third, and when the third succeeds it returns the third
\* attempt's payload, having made exactly 3 requests and exactly 2 backoff
\* delays.
C11_TwoTimeoutsTwoBackoffs ==
  maxRetries >= 3 =>
    /\ (Len(outcomes) \in 1..2 /\ \A i \in 1..Len(outcomes) : TimedOut(outcomes[i])) => ~FetchDone
    /\ (Len(outcomes) >= 3 /\ TimedOut(outcomes[1]) /\ TimedOut(outcomes[2]) /\ Succeeded(outcomes[3])) =>
         /\ fresult = [kind |-> "returned", payload |-> outcomes[3].body]
         /\ Len(outcomes) = 3
         /\ Len(sleeps) = 2

\* C12: once an attempt of a fetch has received a 4xx or 5xx status, the fetch
\* has failed with an error: no further request and no backoff delay follows
\* that attempt, so a fetch that receives it first makes exactly one request
\* and no delay at all.
C12_HttpErrorFailsAtOnce ==
  \A k \in 1..Len(outcomes) :
    (outcomes[k].kind = "response" /\ outcomes[k].status \in 400..599) =>
      /\ k = Len(outcomes)
      /\ FetchFailing
      /\ Len(sleeps) < k

\* A fetch received a 404 on its first attempt and raised after that single
\* request, without any delay.
C12_Witness ==
  /\ fpc = "raised"
  /\ Len(outcomes) = 1
  /\ outcomes[1].kind = "response"
  /\ outcomes[1].status = 404
  /\ sleeps = <<>>
  /\ fresult.kind = "raised"

\* C13: once an attempt of a fetch has received a 200 response whose body is
\* not valid JSON, the fetch has failed with an error: no further request and
\* no backoff delay follows that attempt.
C13_BadJsonNotRetried ==
  \A k \in 1..Len(outcomes) :
    (outcomes[k].kind = "response" /\ outcomes[k].status = 200 /\ outcomes[k].body \notin JsonBodies) =>
      /\ k = Len(outcomes)
      /\ FetchFailing
      /\ Len(sleeps) < k

\* The bounds of one fetch, in every state of it.
C14_State ==
  /\ Len(outcomes) <= maxRetries
  /\ Len(sleeps) <= attempt
  /\ maxRetries > 0 => Len(sleeps) <= maxRetries - 1
  /\ FetchDone /\ outcomes # <<>> => Len(sleeps) < Len(outcomes)
  /\ (FetchDone /\ \A i \in 1..Len(outcomes) : outcomes[i].kind = "error" /\ outcomes[i].exc \in {"ConnectionError", "ConnectTimeout", "ReadTimeout"}) =>
       /\ fpc = "raised"
       /\ fresult.kind = "raised"
       /\ Len(outcomes) = maxRetries

\* C14: a fetch makes at most N requests and at most N-1 backoff delays, none
\* after its last attempt; when all N attempts fail with retryable errors it
\* fails with an error after the N-th; and every fetch that is running
\* eventually returns or raises.
C14_BoundedFetch == []C14_State /\ (FetchRunning ~> FetchDone)

\* A fetch of three attempts met a refused connection three times: it raised
\* after the third request, having slept twice.
C14_Witness ==
  /\ fpc = "raised"
  /\ maxRetries = 3
  /\ Len(outcomes) = 3
  /\ \A i \in 1..3 : outcomes[i].kind = "error" /\ outcomes[i].exc = "ConnectionError"
  /\ sleeps = <<1, 2>>

(***************************************************************************)
(* Properties of the bulk action (checked under SpecBulk).                 *)
(***************************************************************************)
Distinct(names) == \A i, j \in 1..Len(names) : names[i] = names[j] => i = j

\* The results dict the loop builds for a list of names and what the service
\* did for each: a later entry for the same name replaces an earlier one.
ResultsOf(names, outs) ==
  [n \in Range(names) |->
     ItemResult(outs[CHOOSE i \in 1..Len(names) : names[i] = n /\ \A j \in (i + 1)..Len(names) : names[j] # n])]

\* The three outcomes of a bulk action, by its per-name results.
OutcomeClass(res) ==
  IF \A n \in DOMAIN res : res[n].success THEN "all succeeded"
  ELSE IF \A n \in DOMAIN res : ~res[n].success THEN "all failed"
  ELSE "partial"

\* The overall status of a response: its fields other than the per-name results.
OverallStatus(resp) == [success |-> resp.success, total |-> resp.total, successful |-> resp.successful]

\* C15: a bulk action over N distinct names answers with exactly N per-name
\* results; every name was attempted, whatever the earlier ones did, and a
\* name is marked successful exactly when its own action returned true.
C15_PerNameResults ==
  (bpc = "done" /\ bAction \in ValidActions /\ bNames # <<>> /\ Distinct(bNames)) =>
    /\ bresp.code = 200
    /\ Len(bOutcomes) = Len(bNames)
    /\ Cardinality(DOMAIN bresp.results) = Len(bNames)
    /\ \A i \in 1..Len(bNames) : bresp.results[bNames[i]].success <=> (bOutcomes[i] = "true")

\* The bulk action over a, b, c where b's action failed: three results, a and
\* c successful, b failed.
C15_Witness ==
  /\ bpc = "done"
  /\ bresp.code = 200
  /\ bNames = <<"a", "b", "c">>
  /\ Len(bOutcomes) = 3
  /\ bOutcomes[1] = "true" /\ bOutcomes[2] # "true" /\ bOutcomes[3] = "true"
  /\ DOMAIN bresp.results = {"a", "b", "c"}
  /\ bresp.results["a"].success /\ ~bresp.results["b"].success /\ bresp.results["c"].success

\* C16: whatever the service calls of a bulk action could have done instead,
\* if that falls into another of the three outcomes (all succeeded, partial,
\* all failed) than what they did, the overall status of the response differs.
C16_StatusTellsOutcome ==
  (bpc = "done" /\ bresp.code = 200) =>
    \A v \in [1..Len(bNames) -> ItemOutcomes] :
      OutcomeClass(ResultsOf(bNames, v)) # OutcomeClass(bResults) =>
        OverallStatus(BulkResponse(ResultsOf(bNames, v), bAction, bNames)) # OverallStatus(bresp)

\* A partial outcome: the flag is false as for a total failure, and the count
\* of successes is neither zero nor the total.
C16_Witness ==
  /\ bpc = "done"
  /\ bresp.code = 200
  /\ OutcomeClass(bResults) = "partial"
  /\ ~bresp.success
  /\ bresp.successful > 0
  /\ bresp.successful < bresp.total

(***************************************************************************)
(* Properties of the container listing and inspection (checked under       *)
(* SpecList).                                                              *)
(***************************************************************************)
\* A line that is a well-formed enumeration object.
WellFormed(line) == line.kind = "object" /\ line.hasNames

\* list_containers ran `docker ps` successfully and is over.
ListOver == lpc = "done" \/ (lpc = "raised" /\ lIdx > 0)

\* C17: a listing whose enumeration succeeded returns a list with exactly one
\* record per well-formed line of the payload, in quick and in full mode, and
\* does not raise because of a malformed line.
C17_OneRecordPerValidLine ==
  ListOver =>
    /\ lresult.kind = "list"
    /\ lresult.count = Cardinality({i \in 1..Len(payload) : WellFormed(payload[i])})

\* C18: a listing with include_stopped = true, of a payload whose lines are all
\* well-formed, returns a record for every container the enumeration reported,
\* whatever its state and whether or not it is in the managed-services table.
C18_NoContainerOmitted ==
  (ListOver /\ includeStopped /\ \A i \in 1..Len(payload) : WellFormed(payload[i])) =>
    /\ lresult.kind = "list"
    /\ \A i \in 1..Len(payload) :
         WellFormed(payload[i]) => \E j \in 1..Len(containers) : containers[j].name = payload[i].name

C20_StateTableNeverRaises ==
  (det.called /\ det.inspect.kind = "blob") =>
    /\ det.parsed.kind = "container"
    /\ det.parsed.status =
         (CASE Lower(det.inspect.status) = "running" -> "RUNNING"
            [] Lower(det.inspect.status) = "exited" -> "STOPPED"
            [] Lower(det.inspect.status) = "paused" -> "PAUSED"
            [] Lower(det.inspect.status) = "restarting" -> "RESTARTING"
            [] Lower(det.inspect.status) = "dead" -> "ERROR"
            [] OTHER -> "UNKNOWN")

\* C21: detailed inspection of a document that lacks a required field (Id,
\* Name, Config.Image or Created) yields a record, holding defaults for the
\* missing fields: the parser does not raise and the result is not absent.
C21_MissingFieldsDefaulted ==
  (det.called /\ det.inspect.kind = "blob" /\ det.inspect.lacks # "") =>
    /\ det.parsed.kind = "container"
    /\ IsSome(det.result)
    /\ det.inspect.lacks = "Name" => det.result[1].name = ""

(***************************************************************************)
(* Properties of the statistics parser (checked under SpecStats).          *)
(***************************************************************************)
\* The power of 1024 the claim gives a unit suffix, -1 for any other text.
UnitPower(unit) ==
  CASE unit = <<"B">> -> 0
    [] unit \in {<<"K", "B">>, <<"K", "i", "B">>} -> 1
    [] unit \in {<<"M", "B">>, <<"M", "i", "B">>} -> 2
    [] unit \in {<<"G", "B">>, <<"G", "i", "B">>} -> 3
    [] unit \in {<<"T", "B">>, <<"T", "i", "B">>} -> 4
    [] OTHER -> -1

\* C22: the size-string conversion never raises; a number v with a unit
\* suffix B, KB, MB, GB, TB (or KiB, MiB, GiB, TiB) gives v * 1024^k, and a
\* string whose number is not a number or whose suffix is no unit gives 0.
C22_SizeStringConversion ==
  (mem.called /\ mem.unit # <<>>) =>
    /\ mem.result.kind = "value"
    /\ mem.result =
         (IF IsDigits(mem.num) /\ UnitPower(mem.unit) >= 0
            THEN Bytes(DigitsValue(mem.num), UnitPower(mem.unit))
            ELSE Bytes(0, 0))

\* The value of a percentage field, zero when it fails conversion.
PercentOrZero(field) ==
  LET f == PercentOf(RStripPercent(GetOr(field, DefaultPercent)))
  IN IF f.kind = "finite" THEN f.value ELSE 0

\* C23: get_container_stats on a statistics line returns a record, whatever
\* field fails conversion: a percentage that fails conversion is zero in it
\* and the other percentage keeps its parsed value.
C23_FailedFieldIsZero ==
  (stats.called /\ stats.outcome = "line") =>
    /\ IsSome(stats.result)
    /\ stats.result[1].cpu_percent = PercentOrZero(stats.line.CPUPerc)
    /\ stats.result[1].memory_percent = PercentOrZero(stats.line.MemPerc)

(***************************************************************************)
(* Properties of the rolling metrics history (checked under SpecCache).    *)
(***************************************************************************)
\* The call just observed acquired a snapshot from the remote host.
Acquired(obs) == obs.called /\ obs.producer = 1 /\ obs.ok

\* The lines of the cache test and of the remote acquisition.
BeforeStore == {"m46", "m47", "m48", "m49", "acquire"}

C24_State ==
  Acquired(mret) =>
    /\ Len(metricsCache) > 0
    /\ metricsCache[Len(metricsCache)].timestamp = now
    /\ Some(metricsCache[Len(metricsCache)]) = mAcq
    /\ \A i \in 1..Len(metricsCache) : metricsCache[i].timestamp > now - HistoryWindow

C24_Step ==
  /\ \A c \in RaceCallers :
       (rpc[c] \in BeforeStore \/ rpc'[c] \in BeforeStore) => metricsCache' = metricsCache
  /\ (mret'.called /\ ~Acquired(mret')) =>
       \E c \in RaceCallers : rpc[c] \in BeforeStore /\ rpc'[c] = "idle"
  /\ metricsCache' # metricsCache =>
       \E c \in RaceCallers :
         \/ /\ rpc[c] = "append"
            /\ metricsCache' = Append(metricsCache, [timestamp |-> now, cpu_percent |-> rval[c][1].cpu_percent])
         \/ /\ rpc[c] = "assign"
            /\ Acquired(mret')
            /\ \E kept \in 1..Len(metricsCache) :
                 metricsCache' = SubSeq(metricsCache, Len(metricsCache) - kept + 1, Len(metricsCache))
         \/ /\ rpc[c] = "idle" /\ rpc'[c] = "c387"
            /\ mCleared'
            /\ metricsCache' = <<>>

\* C24: after a get_system_metrics call that acquired a snapshot at time now,
\* the history ends with that snapshot and every snapshot in it is younger
\* than 24 hours; a call served from the cache or a failed acquisition leaves
\* the history as it was (no line of the cache test or of the acquisition
\* writes it, and such a call ends from one of them), and the history changes
\* only by an acquisition (the new snapshot appended, then the old ones
\* dropped from the front) or by clear_cache.
C24_HistoryWindow == []C24_State /\ [][C24_Step]_vars

\* An acquisition exactly one window after an earlier one: the earlier
\* snapshot is dropped and the history holds the new one alone.
C24_Witness ==
  /\ Acquired(mret)
  /\ now = HistoryWindow
  /\ IsSome(mret.acqAge) /\ mret.acqAge[1] = HistoryWindow
  /\ Len(metricsCache) = 1

\* C25: clear_cache removes no snapshot from the history: right after it,
\* get_historical_metrics(24) still returns the snapshot of the last
\* acquisition when that was collected within the last 24 hours.
C25_ClearKeepsHistory ==
  (mCleared /\ IsSome(mEver) /\ now - mEver[1] < 24 * SecondsPerHour) =>
    \E i \in 1..Len(GetHistoricalMetrics(metricsCache, 24, now)) :
      GetHistoricalMetrics(metricsCache, 24, now)[i].timestamp = mEver[1]

(***************************************************************************)
(* Properties of concurrent refreshes (checked under SpecRace).            *)
(***************************************************************************)
\* C26: a refresh in progress is not duplicated by a concurrent caller: at
\* most one acquisition is in flight, and the callers racing past one expiry
\* append one snapshot, so no two snapshots of the history bear the same
\* time.
C26_NoDuplicateRefresh ==
  /\ Cardinality(InFlight) <= 1
  /\ \A i, j \in 1..Len(metricsCache) :
       metricsCache[i].timestamp = metricsCache[j].timestamp => i = j

\* The condition the caller is about to test fails.
TestFails(c) ==
  \/ rpc[c] = "m46" /\ lastMetricsUpdate = None
  \/ rpc[c] = "m47" /\ IsSome(lastMetricsUpdate) /\ TdSeconds(rnow[c], lastMetricsUpdate[1]) >= CacheTtl
  \/ rpc[c] = "m48" /\ Len(metricsCache) = 0

C26_State ==
  /\ rAppended <= rProducer
  /\ rProducer <= rStarted
  /\ Cardinality(InFlight) <= Cardinality(RaceCallers)
  /\ Len(metricsCache) <= rAppended
  /\ \A i \in 1..Len(metricsCache) : metricsCache[i].timestamp <= now

C26_Step ==
  /\ \A c \in RaceCallers :
       (rpc'[c] # rpc[c] /\ TestFails(c)) => (rpc'[c] = "acquire" /\ rProducer' = rProducer + 1)
  /\ rProducer' # rProducer =>
       /\ rProducer' = rProducer + 1
       /\ \E c \in RaceCallers : rpc[c] # "acquire" /\ rpc'[c] = "acquire"
  /\ rAppended' # rAppended =>
       /\ rAppended' = rAppended + 1
       /\ \E c \in RaceCallers :
            /\ rpc[c] = "append"
            /\ rval[c][1].timestamp = rnow[c]
            /\ metricsCache' = Append(metricsCache, rval[c][1])

\* C26 as the code has it: concurrent callers are not de-duplicated.  Every
\* call that finds the cache stale starts one acquisition of its own, whether
\* or not another is in flight; every successful acquisition appends one
\* snapshot stamped with its caller's time, and the history holds at most one
\* snapshot per successful acquisition.
C26_DuplicateRefreshes == []C26_State /\ [][C26_Step]_vars

\* Two callers raced past the expired TTL of a populated cache: both
\* acquisitions are in flight.
C26_Witness ==
  /\ InFlight = RaceCallers
  /\ IsSome(lastMetricsUpdate)
  /\ metricsCache # <<>>
  /\ now - lastMetricsUpdate[1] >= CacheTtl

(***************************************************************************)
(* Properties of the matcher (checked under SpecMatch).                    *)
(***************************************************************************)
\* Some descriptor matches the observed record at the tier.
SomeAt(tier) == \E i \in 1..Len(Descriptors) : TierMatches(tier, Descriptors[i], matched.name, matched.image)

\* The observed result is a descriptor matching at the tier.
ResultAt(tier) == IsSome(matched.result) /\ TierMatches(tier, matched.result[1], matched.name, matched.image)

\* C27: the matcher applies the tiers in priority order: when a descriptor
\* matches by exact name the result matches by exact name; else when one
\* matches by name substring the result does; else when one matches by the
\* image heuristic the result does; and the result is none exactly when no
\* descriptor matches at any tier.
C27_TierPriority ==
  matched.called =>
    /\ SomeAt(1) => ResultAt(1)
    /\ (~SomeAt(1) /\ SomeAt(2)) => ResultAt(2)
    /\ (~SomeAt(1) /\ ~SomeAt(2) /\ SomeAt(3)) => ResultAt(3)
    /\ (~SomeAt(1) /\ ~SomeAt(2) /\ ~SomeAt(3)) <=> matched.result = None
    /\ IsSome(matched.result) => \E i \in 1..Len(Descriptors) : matched.result[1] = Descriptors[i]

\* The exact name of a later row wins over the image heuristic of an earlier
\* row: a process named plex running a sonarr image is matched to plex.
C27_Witness ==
  /\ matched.called
  /\ matched.name = <<"p", "l", "e", "x">>
  /\ matched.image = <<"l", "i", "n", "u", "x", "s", "e", "r", "v", "e", "r", "/", "s", "o", "n", "a", "r", "r", ":", "l", "a", "t", "e", "s", "t">>
  /\ matched.result = Some(Descriptors[2])

(***************************************************************************)
(* Properties of the container API (checked under SpecApi).                *)
(***************************************************************************)
\* C28: every container API operation answers a transport failure or a
\* failed remote command with a response whose success flag is false and
\* that carries a text; the failure never leaves the handler as an exception.
C28_FailuresStructured ==
  (api.called /\ api.failure) =>
    /\ api.response.kind = "response"
    /\ ~api.response.success
    /\ api.response.text \in {"error", "message", "results"}

(***************************************************************************)
(* Properties of the commands a listing issues (checked under SpecList).   *)
(***************************************************************************)
\* The last n commands issued.
LastCommands(n) == IF Len(commands) < n THEN <<>> ELSE SubSeq(commands, Len(commands) - n + 1, Len(commands))

\* The commands the inspection of one container is to issue, by what the
\* inspect gave.
CommandsFor(inspected) ==
  CASE inspected = "running" -> <<"inspect", "stats", "logs">>
    [] inspected = "other" -> <<"inspect", "logs">>
    [] OTHER -> <<"inspect">>

\* C29: a quick-mode listing issues the enumeration command alone, whatever
\* the number of lines; in full mode the last container inspected was
\* followed by its inspect command, a statistics command only when its
\* inspected state is running, and a log-tail command.
C29_CommandsPerMode ==
  /\ (lpc # "idle" /\ quickMode /\ ~det.called) => commands = <<"ps">>
  /\ (lpc # "idle" /\ ~quickMode /\ ~det.called /\ linspect # "none") =>
       LastCommands(Len(CommandsFor(linspect))) = CommandsFor(linspect)

(***************************************************************************)
(* Properties of the retry policy of the metrics fetch, continued (checked *)
(* under SpecFetch).                                                       *)
(***************************************************************************)
\* A failure of the request that is neither a refused connection nor a
\* timeout: another exception of requests.get, or an HTTP error status.
OtherRequestFailure(o) ==
  \/ o.kind = "error" /\ ~IsConnectionError(o.exc) /\ ~IsTimeout(o.exc)
  \/ o.kind = "response" /\ o.status \in 400..599

\* C30: only refused connections and timeouts are retried: once an attempt
\* has met any other request failure the fetch has failed, with no further
\* request and no backoff delay after that attempt.
C30_OnlyConnectionAndTimeoutRetried ==
  \A k \in 1..Len(outcomes) :
    OtherRequestFailure(outcomes[k]) =>
      /\ k = Len(outcomes)
      /\ FetchFailing
      /\ Len(sleeps) < k

\* C30 as the code has it: every failure raised by the request itself (a
\* refused connection, a timeout, or any other request failure such as too
\* many redirects) is retried while attempts remain, and but for a read
\* timeout the backoff delay of that attempt is taken first; a fetch that
\* fails before its attempts are used up has received a response last.
C30_RequestFailuresRetried ==
  /\ \A k \in 1..Len(outcomes) :
       (outcomes[k].kind = "error" /\ k < maxRetries) =>
         /\ k = Len(outcomes) => (fpc \in {"sleeping", "request"} /\ ~FetchFailing)
         /\ (outcomes[k].exc # "ReadTimeout" /\ (k < Len(outcomes) \/ fpc = "request")) =>
              \E j \in 1..Len(sleeps) : sleeps[j] = k
  /\ (fpc = "raised" /\ Len(outcomes) < maxRetries /\ outcomes # <<>>) =>
       outcomes[Len(outcomes)].kind = "response"

\* The first attempt met too many redirects; the fetch slept one second and
\* made a second request.
C30_Witness ==
  /\ Len(outcomes) = 2
  /\ outcomes[1].kind = "error"
  /\ outcomes[1].exc = "TooManyRedirects"
  /\ sleeps # <<>>
  /\ sleeps[1] = 1

(***************************************************************************)
(* Properties of the backoff of the metrics fetch (checked under           *)
(* SpecFetch).                                                             *)
(***************************************************************************)
RECURSIVE TotalBackoff(_)
TotalBackoff(s) == IF s = <<>> THEN 0 ELSE Head(s) + TotalBackoff(Tail(s))

\* The delays of one fetch: each is the number of a retry of that fetch, later
\* delays are longer, and their sum is at most N(N-1)/2.
C31_State ==
  /\ \A i \in 1..Len(sleeps) : sleeps[i] \in 1..(maxRetries - 1)
  /\ \A i, j \in 1..Len(sleeps) : i < j => sleeps[i] < sleeps[j]
  /\ 2 * TotalBackoff(sleeps) <= maxRetries * (maxRetries - 1)
  /\ maxRetries = 3 => TotalBackoff(sleeps) <= 3

\* A delay is taken after k failed attempts, before the k-th retry, and lasts
\* k seconds.
C31_Step ==
  (sleeps' # sleeps /\ sleeps' # <<>>) =>
    /\ Len(outcomes) \in 1..(maxRetries - 1)
    /\ sleeps' = Append(sleeps, Len(outcomes))
    /\ outcomes' = outcomes
    /\ fpc' = "request"

\* C31: the backoff of the metrics fetch is linear: whenever the fetch sleeps
\* before a retry, the sleep before the k-th retry (k = 1..N-1) lasts exactly
\* k seconds, so the total backoff over N attempts is at most N(N-1)/2
\* seconds (3 seconds for N = 3).
C31_LinearBackoff == []C31_State /\ [][C31_Step]_vars

\* A fetch of three attempts timed out first, which takes no delay, and met a
\* refused connection second: its only delay, before the second retry, lasted
\* two seconds.
C31_Witness ==
  /\ maxRetries = 3
  /\ Len(outcomes) >= 2
  /\ TimedOut(outcomes[1]) /\ outcomes[1].exc = "ReadTimeout"
  /\ outcomes[2].kind = "error" /\ outcomes[2].exc = "ConnectionError"
  /\ sleeps = <<2>>

(***************************************************************************)
(* Properties of the commands of the bulk action (checked under SpecBulk). *)
(***************************************************************************)
\* The commands issued so far are those of the first names, one each, in the
\* order of the request; a result is recorded for every name but the one
\* whose service call is running.
C32_State ==
  /\ Len(bOutcomes) = bIdx
  /\ Len(bCommands) = bIdx + (IF bpc = "call" THEN 1 ELSE 0)
  /\ Len(bCommands) <= Len(bNames)
  /\ \A i \in 1..Len(bCommands) : bCommands[i] = [action |-> bAction, name |-> bNames[i]]
  /\ \A i \in 1..bIdx : bNames[i] \in DOMAIN bResults
  /\ (bpc = "done" /\ bresp.code = 200) => Len(bCommands) = Len(bNames)

\* A command is issued while no service call is running, one at a time, and
\* after the results of all earlier commands were recorded.
C32_Step ==
  (bCommands' # bCommands /\ bCommands' # <<>>) =>
    /\ bpc # "call"
    /\ Len(bCommands') = Len(bCommands) + 1
    /\ Len(bOutcomes) = Len(bCommands)
    /\ \A i \in 1..Len(bCommands) : bNames[i] \in DOMAIN bResults

\* C32: a bulk action processes the names sequentially in the order given:
\* exactly one lifecycle command is issued per name, and the command for a
\* name is issued only after the result of the previous name has been
\* recorded, so no two items' commands overlap.
C32_SequentialCommands == []C32_State /\ [][C32_Step]_vars

\* Stopping b then a: the command for a is running, the one for b has failed
\* and its result is recorded.
C32_Witness ==
  /\ bpc = "call"
  /\ bAction = "stop"
  /\ bNames = <<"b", "a">>
  /\ bCommands = <<[action |-> "stop", name |-> "b"], [action |-> "stop", name |-> "a"]>>
  /\ bOutcomes = <<"false">>
  /\ DOMAIN bResults = {"b"}
  /\ ~bResults["b"].success

\* A request that does not pass validation is answered 400 and has issued
\* no command and recorded nothing.
C33_State ==
  (bpc # "idle" /\ (bAction \notin {"start", "stop", "restart"} \/ bNames = <<>>)) =>
    /\ bpc = "done"
    /\ bresp.code = 400
    /\ ~bresp.success
    /\ bresp.error \in {"Invalid action", "No containers specified"}
    /\ bCommands = <<>>
    /\ bOutcomes = <<>>
    /\ bResults = EmptyDict

\* C33: a bulk request whose action is not one of start, stop, restart, or
\* whose name list is empty, is rejected with a structured error before any
\* remote command is issued: the step that answers it leaves the remote
\* session and everything outside the request unchanged.
C33_RejectedBeforeAnyCommand ==
  []C33_State /\ [][(bpc = "idle" /\ bpc' = "done") => (bCommands' = <<>> /\ UNCHANGED outsideBulk)]_vars

\* The action kill on the container a was rejected; no command was issued.
C33_Witness ==
  /\ bpc = "done"
  /\ bAction = "kill"
  /\ bNames = <<"a">>
  /\ bresp.code = 400
  /\ bresp.error = "Invalid action"
  /\ bCommands = <<>>

\* C39: in every bulk result the reported total equals the number of
\* per-name results, successful is at most total, and the results marked
\* successful plus the results marked failed number total; also when the
\* request names the same container more than once.
C39_TotalsConsistent ==
  (bpc = "done" /\ bresp.code = 200) =>
    LET res == bresp.results
    IN /\ bresp.total = Cardinality(DOMAIN res)
       /\ bresp.successful <= bresp.total
       /\ Cardinality({n \in DOMAIN res : res[n].success}) + Cardinality({n \in DOMAIN res : ~res[n].success}) = bresp.total

(***************************************************************************)
(* Properties of the lifecycle methods (checked under SpecApi).            *)
(***************************************************************************)
\* C34: start, stop and restart each issue exactly one remote command, their
\* own, and return true if and only if that command's exit status is 0; a
\* nonzero exit status or a transport error yields false, never an
\* exception, and the command is not issued again.
C34_OneCommandTrueIffExitZero ==
  (api.called /\ api.op \in {"start", "stop", "restart"}) =>
    /\ api.issued = <<api.op>>
    /\ api.returned \in BOOLEAN
    /\ api.returned <=> (api.input = "ok")
    /\ api.input \in {"exit_nonzero", "SSHConnectionError"} => (~api.returned /\ api.response.kind = "response")

\* A restart whose command exited with a nonzero status: one command, false.
C34_Witness ==
  /\ api.called
  /\ api.op = "restart"
  /\ api.input = "exit_nonzero"
  /\ api.issued = <<"restart">>
  /\ api.returned = FALSE

(***************************************************************************)
(* Properties of a full listing whose statistics sample fails (checked     *)
(* under SpecList) and of a failed inspection (checked under SpecApi).     *)
(***************************************************************************)
\* C35: in a full (non-quick) listing, a running container stays in the
\* list whatever its statistics sample gives: after a well-formed line whose
\* container was inspected as running, the listing has not been aborted and
\* the list holds a record of that container, marked running.
C35_StatsFailureKeepsContainer ==
  (lpc \in {"lines", "done", "raised"} /\ ~quickMode /\ ~det.called
     /\ lIdx > 0 /\ WellFormed(payload[lIdx]) /\ linspect = "running") =>
    /\ lpc # "raised"
    /\ containers # <<>>
    /\ containers[Len(containers)].is_running

\* The inspections that give no document to parse.
InspectionFailed(inspect) == inspect.kind \in {"SSHConnectionError", "exit_nonzero", "bad_json", "empty_list"}

\* C40: an inspection never raises: a transport failure, a nonzero exit
\* status of the inspect command and an unparsable inspect document each
\* yield none, and the details endpoint answers each of them with the same
\* not-found response, for a missing container as for an unreachable host.
C40_FailedInspectionIsNone ==
  (api.called /\ api.op = "details" /\ InspectionFailed(api.input)) =>
    /\ GetContainerDetailsOf(api.input) = None
    /\ api.response = Response(404, FALSE, "error")
    /\ \A other \in InspectOutcomes : InspectionFailed(other) => ApiGetContainer(other) = api.response

\* The host was unreachable: the details endpoint answered 404.
C40_Witness ==
  /\ api.called
  /\ api.op = "details"
  /\ api.input.kind = "SSHConnectionError"
  /\ api.response.code = 404
  /\ ~api.response.success

(***************************************************************************)
(* Properties of the record parser and of the two state tables (checked    *)
(* under SpecDoc).                                                         *)
(***************************************************************************)
\* C36: the parse of an inspect document yields a record whose name is the
\* reported name without its leading "/", and whose environment maps the
\* text before the first "=" of each KEY=VALUE entry to the text after it;
\* an entry without "=" adds nothing and does not make the parse fail.
C36_NameAndEnvironment ==
  (doc.called /\ doc.op = "parse") =>
    LET d == doc.input
        entries == {i \in 1..Len(d.Env) : HasEq(d.Env[i])}
    IN /\ doc.parsed.kind = "container"
       /\ (d.Name = <<>> \/ Head(d.Name) # "/") => doc.parsed.name = d.Name
       /\ (d.Name # <<>> /\ Head(d.Name) = "/" /\ (Len(d.Name) = 1 \/ d.Name[2] # "/")) =>
            doc.parsed.name = Tail(d.Name)
       /\ \A i \in entries : SplitEnv(d.Env[i])[1] \in DOMAIN doc.parsed.environment
       /\ \A k \in DOMAIN doc.parsed.environment :
            \E i \in entries : d.Env[i] = k \o <<"=">> \o doc.parsed.environment[k]
       /\ entries = {} => doc.parsed.environment = EmptyDict

\* C37: quick-mode listing and detailed inspection classify a runtime state
\* string identically: the record built from a summary line with that State
\* and the record built from an inspect document with that State.Status
\* both exist and have the same lifecycle state, one of the six enumerated
\* values.
C37_SameClassification ==
  (doc.called /\ doc.op = "classify") =>
    /\ IsSome(doc.quick)
    /\ IsSome(doc.detailed)
    /\ doc.quick[1].status = doc.detailed[1].status
    /\ doc.quick[1].status \in EnumMembers

(***************************************************************************)
(* Properties of a failed metrics acquisition (checked under SpecCache).   *)
(***************************************************************************)
\* The call observed ran the producer and the producer failed.
FailedAcquisition(obs) == obs.called /\ obs.producer = 1 /\ ~obs.ok

\* A failed acquisition ends from the line of the remote commands, and no
\* line up to there writes the history or the last-update time; the call that
\* follows it runs the producer unless the last successful acquisition is
\* younger than the ttl.
C38_Step ==
  /\ FailedAcquisition(mret') => \E c \in RaceCallers : rpc[c] = "acquire" /\ rpc'[c] = "idle"
  /\ \A c \in RaceCallers :
       (rpc[c] \in BeforeStore \/ rpc'[c] \in BeforeStore) =>
         (metricsCache' = metricsCache /\ lastMetricsUpdate' = lastMetricsUpdate)
  /\ (mret'.called /\ mret'.afterFail) =>
       \/ mret'.producer = 1
       \/ IsSome(mret'.acqAge) /\ mret'.acqAge[1] < CacheTtl

\* C38: a failed metrics acquisition is not cached: it returns none, leaves
\* the rolling history and the last-update time unchanged, and the next
\* get_system_metrics call invokes the producer again unless an earlier
\* successful value is still within the ttl.
C38_FailureNotCached == [][C38_Step]_vars

====
